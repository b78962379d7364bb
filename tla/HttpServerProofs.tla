-------------------------- MODULE HttpServerProofs --------------------------
(***************************************************************************)
(* Proofs about HttpServer, for any number of descriptors, sessions and    *)
(* workers and any requests, pipelined or not.                             *)
(*                                                                         *)
(* The inductive invariant relates the tables of the server, the poller    *)
(* and the descriptors.  It is a predicate of explicit tables, Tables(k,   *)
(* m, ...), so that what a handler does on its way is a chain of lemmas    *)
(* about tables, without primes: a file is closed, a response is appended, *)
(* a CGI pipe is dropped.  The last part is about clients that wait for    *)
(* each response, and ends with the refinement of ConnectionService.       *)
(***************************************************************************)
EXTENDS HttpServer, SequenceTheorems, TLAPS

\* k: kind, m: mask, ss, fl, cf: the three maps of sessions, cp: cgiPids,
\* lv: live, cx: ctx, w: worker.
Typed(k, m, ss, fl, cf, cp, lv, cx, w) ==
    /\ k \in [Fd -> Kind]
    /\ m \in [Fd -> SUBSET PollBit]
    /\ ss \in [Fd -> Session \union {Nil}]
    /\ fl \in [Fd -> Session \union {Nil}]
    /\ cf \in [Fd -> Session \union {Nil}]
    /\ cp \in [Pid -> Entry \union {Nil}]
    /\ lv \in SUBSET Session
    /\ cx \in [Session -> Context]
    /\ w \in [Pid -> {"none", "run", "killed", "zombie"}]

ListenersOK(k, m) ==
    \A f \in Listeners : k[f] = "listen" /\ m[f] = {"READ"}

SessionsOK(k, m, ss, lv, cx) ==
    /\ \A s \in lv : /\ cx[s].conn \in Fd
                     /\ k[cx[s].conn] = "conn"
                     /\ ss[cx[s].conn] = s
                     /\ "READ" \in m[cx[s].conn]
    /\ \A f \in Fd : ss[f] # Nil => ss[f] \in lv /\ cx[ss[f]].conn = f

FilesOK(k, m, fl, lv, cx) ==
    /\ \A s \in lv : ~cx[s].closed => /\ cx[s].file \in Fd
                                      /\ k[cx[s].file] = "file"
                                      /\ fl[cx[s].file] = s
    /\ \A f \in Fd : fl[f] # Nil => k[f] = "file" /\ m[f] = {"READ"}

CgiOK(k, cf, cp, cx, w) ==
    /\ \A p \in Pid : cp[p] # Nil <=> w[p] # "none"
    /\ \A p \in Pid : cp[p] # Nil => k[cp[p].in] = "cgiIn" /\ k[cp[p].out] = "cgiOut"
    /\ \A p, q \in Pid : cp[p] # Nil /\ cp[q] # Nil /\ p # q =>
            cp[p].in # cp[q].in /\ cp[p].out # cp[q].out
    /\ \A f \in Fd : cf[f] # Nil =>
            \E p \in Pid : cp[p] # Nil /\ f \in {cp[p].in, cp[p].out}
    /\ \A s \in Session : cx[s].cgi \in Pid => cp[cx[s].cgi] # Nil

PolledOK(m, ss, fl, cf) ==
    \A f \in Fd : m[f] # {} => f \in Listeners \/ ss[f] # Nil \/ fl[f] # Nil \/ cf[f] # Nil

ArmedOK(m, lv, cx) ==
    \A s \in lv : cx[s].buf > 0 \/ cx[s].close => "WRITE" \in m[cx[s].conn]

Tables(k, m, ss, fl, cf, cp, lv, cx, w) ==
    /\ Typed(k, m, ss, fl, cf, cp, lv, cx, w)
    /\ ListenersOK(k, m)
    /\ SessionsOK(k, m, ss, lv, cx)
    /\ FilesOK(k, m, fl, lv, cx)
    /\ CgiOK(k, cf, cp, cx, w)
    /\ PolledOK(m, ss, fl, cf)
    /\ ArmedOK(m, lv, cx)

TablesInv == Tables(kind, mask, sessions, files, cgiFds, cgiPids, live, ctx, worker)

\* An event is queued only until its handler has returned, and it is fresh.
QueueOK == \/ evq = <<>>
           \/ phase \in {"drain", "blocked"} /\ Len(evq) = 1 /\ QueuedEventFresh

\* A spawner has thrown: on an event of a special file.
Unsupported == /\ srv = "unsupported"
               /\ SpecialFiles /\ \E f \in Fd : files[f] # Nil

EnvOK ==
    /\ srv \in {"up", "write failed", "undefined"} \/ Unsupported
    /\ backlog \in Nat
    /\ inbox \in [Fd -> Nat]
    /\ peer \in [Fd -> {"open", "shut", "reset"}]
    /\ expired \subseteq live
    /\ pipe \in [Pid -> Nat]

LoopOK == phase \in {"drain", "blocked", "timeout", "poll"} /\ evq \in Seq(Event)

IInv == TablesInv /\ EnvOK /\ LoopOK /\ QueueOK

-----------------------------------------------------------------------------
(* What a handler does on its way, as lemmas about tables *)

\* A live session may change its context as long as what it now refers to
\* is there: its open file, its CGI worker, the mask it needs.
LEMMA ChangeContext ==
    ASSUME NEW k, NEW m, NEW ss, NEW fl, NEW cf, NEW cp, NEW lv, NEW cx, NEW w,
           Tables(k, m, ss, fl, cf, cp, lv, cx, w),
           NEW s \in lv, NEW c \in Context, c.conn = cx[s].conn,
           ~c.closed => /\ c.file \in Fd /\ k[c.file] = "file" /\ fl[c.file] = s,
           c.cgi \in Pid => cp[c.cgi] # Nil,
           c.buf > 0 \/ c.close => "WRITE" \in m[c.conn]
    PROVE  Tables(k, m, ss, fl, cf, cp, lv, [cx EXCEPT ![s] = c], w)
<1> DEFINE x == [cx EXCEPT ![s] = c]
<1>0. /\ cx \in [Session -> Context] /\ lv \subseteq Session /\ s \in Session
  BY DEF Tables, Typed
<1>1. /\ x \in [Session -> Context]
      /\ \A t \in Session : x[t] = IF t = s THEN c ELSE cx[t]
  BY <1>0
<1> HIDE DEF x
<1>2. Typed(k, m, ss, fl, cf, cp, lv, x, w)
  BY <1>1 DEF Tables, Typed
<1>3. SessionsOK(k, m, ss, lv, x)
  BY <1>0, <1>1 DEF Tables, SessionsOK
<1>4. FilesOK(k, m, fl, lv, x)
  BY <1>0, <1>1 DEF Tables, FilesOK
<1>5. CgiOK(k, cf, cp, x, w)
  BY <1>0, <1>1 DEF Tables, CgiOK
<1>6. ArmedOK(m, lv, x)
  BY <1>0, <1>1 DEF Tables, ArmedOK
<1>7. Tables(k, m, ss, fl, cf, cp, lv, x, w)
  BY <1>2, <1>3, <1>4, <1>5, <1>6 DEF Tables
<1> QED BY <1>7 DEF x

\* Watching a session for writing disturbs nothing.
LEMMA Arm ==
    ASSUME NEW k, NEW m, NEW ss, NEW fl, NEW cf, NEW cp, NEW lv, NEW cx, NEW w,
           Tables(k, m, ss, fl, cf, cp, lv, cx, w), NEW s \in lv
    PROVE  Tables(k, [m EXCEPT ![cx[s].conn] = @ \union {"WRITE"}],
                  ss, fl, cf, cp, lv, cx, w)
<1> DEFINE g == cx[s].conn
           n == [m EXCEPT ![g] = @ \union {"WRITE"}]
<1>0. /\ m \in [Fd -> SUBSET PollBit] /\ g \in Fd /\ k[g] = "conn" /\ ss[g] # Nil
  BY NilAssumption DEF Tables, Typed, SessionsOK
<1>1. /\ n \in [Fd -> SUBSET PollBit]
      /\ \A f \in Fd : n[f] = IF f = g THEN m[f] \union {"WRITE"} ELSE m[f]
  BY <1>0 DEF PollBit
<1> HIDE DEF g, n
<1>2. Typed(k, n, ss, fl, cf, cp, lv, cx, w)
  BY <1>1 DEF Tables, Typed
<1>3. ListenersOK(k, n)
  BY <1>0, <1>1, FdAssumption DEF Tables, ListenersOK
<1>4. SessionsOK(k, n, ss, lv, cx)
  BY <1>0, <1>1 DEF Tables, SessionsOK
<1>5. FilesOK(k, n, fl, lv, cx)
  BY <1>0, <1>1 DEF Tables, FilesOK
<1>6. PolledOK(n, ss, fl, cf)
  BY <1>0, <1>1 DEF Tables, PolledOK
<1>7. ArmedOK(n, lv, cx)
  BY <1>0, <1>1 DEF Tables, ArmedOK, SessionsOK
<1>8. Tables(k, n, ss, fl, cf, cp, lv, cx, w)
  BY <1>2, <1>3, <1>4, <1>5, <1>6, <1>7 DEF Tables
<1> QED BY <1>8 DEF g, n

\* A new static file takes a free descriptor.
LEMMA OpenFile ==
    ASSUME NEW k, NEW m, NEW ss, NEW fl, NEW cf, NEW cp, NEW lv, NEW cx, NEW w,
           Tables(k, m, ss, fl, cf, cp, lv, cx, w),
           NEW s \in lv, NEW f \in Fd, k[f] = "free"
    PROVE  Tables([k EXCEPT ![f] = "file"], [m EXCEPT ![f] = {"READ"}], ss,
                  [fl EXCEPT ![f] = s], cf, cp, lv, cx, w)
<1> DEFINE k2 == [k EXCEPT ![f] = "file"]
           m2 == [m EXCEPT ![f] = {"READ"}]
           fl2 == [fl EXCEPT ![f] = s]
<1>0. /\ k \in [Fd -> Kind] /\ m \in [Fd -> SUBSET PollBit]
      /\ fl \in [Fd -> Session \union {Nil}] /\ s \in Session /\ s # Nil
  BY NilAssumption DEF Tables, Typed
<1>1. /\ k2 \in [Fd -> Kind] /\ m2 \in [Fd -> SUBSET PollBit]
      /\ fl2 \in [Fd -> Session \union {Nil}]
  BY <1>0 DEF Kind, PollBit
<1>2. \A g \in Fd : /\ k2[g] = IF g = f THEN "file" ELSE k[g]
                    /\ m2[g] = IF g = f THEN {"READ"} ELSE m[g]
                    /\ fl2[g] = IF g = f THEN s ELSE fl[g]
  BY <1>0
<1> HIDE DEF k2, m2, fl2
<1>3. Typed(k2, m2, ss, fl2, cf, cp, lv, cx, w)
  BY <1>1 DEF Tables, Typed
<1>4. ListenersOK(k2, m2)
  BY <1>2, FdAssumption DEF Tables, ListenersOK
<1>5. SessionsOK(k2, m2, ss, lv, cx)
  BY <1>2 DEF Tables, SessionsOK
<1>6. FilesOK(k2, m2, fl2, lv, cx)
  BY <1>0, <1>2 DEF Tables, FilesOK
<1>7. CgiOK(k2, cf, cp, cx, w)
  <2>1. \A p \in Pid : cp[p] # Nil => cp[p].in \in Fd /\ cp[p].out \in Fd
    BY DEF Tables, Typed, Entry
  <2> QED BY <1>2, <2>1 DEF Tables, CgiOK
<1>8. PolledOK(m2, ss, fl2, cf)
  BY <1>0, <1>2 DEF Tables, PolledOK
<1>9. ArmedOK(m2, lv, cx)
  BY <1>2 DEF Tables, ArmedOK, SessionsOK
<1>10. Tables(k2, m2, ss, fl2, cf, cp, lv, cx, w)
  BY <1>3, <1>4, <1>5, <1>6, <1>7, <1>8, <1>9 DEF Tables
<1> QED BY <1>10 DEF k2, m2, fl2

\* Files that no live session has open any more are closed.
LEMMA CloseFiles ==
    ASSUME NEW k, NEW m, NEW ss, NEW fl, NEW cf, NEW cp, NEW lv, NEW cx, NEW w,
           Tables(k, m, ss, fl, cf, cp, lv, cx, w),
           NEW F, \A f \in F : f \in Fd /\ k[f] = "file",
           \A t \in lv : ~cx[t].closed => cx[t].file \notin F
    PROVE  Tables(Put(k, F, "free"), Put(m, F, {}), ss, Put(fl, F, Nil),
                  cf, cp, lv, cx, w)
<1> DEFINE k2 == Put(k, F, "free")
           m2 == Put(m, F, {})
           fl2 == Put(fl, F, Nil)
<1>0. /\ k \in [Fd -> Kind] /\ m \in [Fd -> SUBSET PollBit]
      /\ fl \in [Fd -> Session \union {Nil}]
  BY DEF Tables, Typed
<1>1. /\ k2 \in [Fd -> Kind]
      /\ \A g \in Fd : k2[g] = IF g \in F THEN "free" ELSE k[g]
  BY <1>0 DEF Put, Kind
<1>2. /\ m2 \in [Fd -> SUBSET PollBit]
      /\ \A g \in Fd : m2[g] = IF g \in F THEN {} ELSE m[g]
  BY <1>0 DEF Put
<1>3. /\ fl2 \in [Fd -> Session \union {Nil}]
      /\ \A g \in Fd : fl2[g] = IF g \in F THEN Nil ELSE fl[g]
  BY <1>0 DEF Put
<1> HIDE DEF k2, m2, fl2
<1>4. Typed(k2, m2, ss, fl2, cf, cp, lv, cx, w)
  BY <1>1, <1>2, <1>3 DEF Tables, Typed
<1>5. ListenersOK(k2, m2)
  BY <1>1, <1>2, FdAssumption DEF Tables, ListenersOK
<1>6. SessionsOK(k2, m2, ss, lv, cx)
  BY <1>1, <1>2 DEF Tables, SessionsOK
<1>7. FilesOK(k2, m2, fl2, lv, cx)
  BY <1>1, <1>2, <1>3 DEF Tables, FilesOK
<1>8. CgiOK(k2, cf, cp, cx, w)
  <2>1. \A p \in Pid : cp[p] # Nil => cp[p].in \in Fd /\ cp[p].out \in Fd
    BY DEF Tables, Typed, Entry
  <2> QED BY <1>1, <2>1 DEF Tables, CgiOK
<1>9. PolledOK(m2, ss, fl2, cf)
  BY <1>2, <1>3 DEF Tables, PolledOK
<1>10. ArmedOK(m2, lv, cx)
  BY <1>2 DEF Tables, ArmedOK, SessionsOK
<1>11. Tables(k2, m2, ss, fl2, cf, cp, lv, cx, w)
  BY <1>4, <1>5, <1>6, <1>7, <1>8, <1>9, <1>10 DEF Tables
<1> QED BY <1>11 DEF k2, m2, fl2

\* The connections of some live sessions are closed and the sessions freed;
\* their files are still open.
LEMMA DropSessions ==
    ASSUME NEW k, NEW m, NEW ss, NEW fl, NEW cf, NEW cp, NEW lv, NEW cx, NEW w,
           Tables(k, m, ss, fl, cf, cp, lv, cx, w),
           NEW S \in SUBSET lv, NEW G, G = {cx[s].conn : s \in S}
    PROVE  Tables(Put(k, G, "free"), Put(m, G, {}), Put(ss, G, Nil), fl, cf, cp,
                  lv \ S, Put(cx, S, NoContext), w)
<1> DEFINE k2 == Put(k, G, "free")
           m2 == Put(m, G, {})
           ss2 == Put(ss, G, Nil)
           cx2 == Put(cx, S, NoContext)
           lv2 == lv \ S
<1>0. /\ k \in [Fd -> Kind] /\ m \in [Fd -> SUBSET PollBit]
      /\ ss \in [Fd -> Session \union {Nil}] /\ cx \in [Session -> Context]
      /\ lv \in SUBSET Session
  BY DEF Tables, Typed
<1>1. /\ k2 \in [Fd -> Kind]
      /\ \A g \in Fd : k2[g] = IF g \in G THEN "free" ELSE k[g]
  BY <1>0 DEF Put, Kind
<1>2. /\ m2 \in [Fd -> SUBSET PollBit]
      /\ \A g \in Fd : m2[g] = IF g \in G THEN {} ELSE m[g]
  BY <1>0 DEF Put
<1>3. /\ ss2 \in [Fd -> Session \union {Nil}]
      /\ \A g \in Fd : ss2[g] = IF g \in G THEN Nil ELSE ss[g]
  BY <1>0 DEF Put
<1>4. /\ NoContext \in Context /\ NoContext.cgi = Nil
  BY DEF NoContext, Context
<1>5. /\ cx2 \in [Session -> Context]
      /\ \A s \in Session : cx2[s] = IF s \in S THEN NoContext ELSE cx[s]
  BY <1>0, <1>4 DEF Put
<1>6. /\ lv2 \in SUBSET Session /\ \A s \in lv2 : s \in lv /\ s \notin S
  BY <1>0
<1>7. \A s \in lv2 : cx2[s] = cx[s] /\ cx[s].conn \notin G
  BY <1>0, <1>5 DEF Tables, SessionsOK
<1>8. \A g \in G : g \in Fd /\ k[g] = "conn" /\ ss[g] \in S
  BY DEF Tables, SessionsOK
<1>9. \A g \in Fd : ss[g] # Nil /\ ss[g] \in S => g \in G
  BY DEF Tables, SessionsOK
<1> HIDE DEF k2, m2, ss2, cx2, lv2
<1>10. Typed(k2, m2, ss2, fl, cf, cp, lv2, cx2, w)
  BY <1>1, <1>2, <1>3, <1>5, <1>6 DEF Tables, Typed
<1>11. ListenersOK(k2, m2)
  BY <1>1, <1>2, <1>8, FdAssumption DEF Tables, ListenersOK
<1>12. SessionsOK(k2, m2, ss2, lv2, cx2)
  <2>1. \A s \in lv2 : cx[s].conn \in Fd
    BY <1>6 DEF Tables, SessionsOK
  <2>2. \A g \in Fd : ss2[g] # Nil => ss2[g] \in lv2 /\ cx2[ss2[g]].conn = g
    BY <1>3, <1>6, <1>7, <1>9 DEF Tables, SessionsOK, lv2
  <2> QED BY <1>1, <1>2, <1>3, <1>6, <1>7, <2>1, <2>2 DEF Tables, SessionsOK
<1>13. FilesOK(k2, m2, fl, lv2, cx2)
  <2>1. \A s \in lv2 : ~cx[s].closed => cx[s].file \notin G /\ cx[s].file \in Fd
    BY <1>6, <1>8 DEF Tables, FilesOK
  <2>2. \A g \in Fd : fl[g] # Nil => g \notin G
    BY <1>8 DEF Tables, FilesOK
  <2> QED BY <1>1, <1>2, <1>6, <1>7, <2>1, <2>2 DEF Tables, FilesOK
<1>14. CgiOK(k2, cf, cp, cx2, w)
  <2>1. \A p \in Pid : cp[p] # Nil => cp[p].in \in Fd /\ cp[p].out \in Fd
    BY DEF Tables, Typed, Entry
  <2>2. \A p \in Pid : cp[p] # Nil => cp[p].in \notin G /\ cp[p].out \notin G
    BY <1>8 DEF Tables, CgiOK
  <2>3. \A s \in Session : cx2[s].cgi \in Pid => cp[cx2[s].cgi] # Nil
    BY <1>4, <1>5, NilAssumption DEF Tables, CgiOK
  <2> QED BY <1>1, <2>1, <2>2, <2>3 DEF Tables, CgiOK
<1>15. PolledOK(m2, ss2, fl, cf)
  BY <1>2, <1>3 DEF Tables, PolledOK
<1>16. ArmedOK(m2, lv2, cx2)
  BY <1>2, <1>6, <1>7 DEF Tables, ArmedOK, SessionsOK
<1>17. Tables(k2, m2, ss2, fl, cf, cp, lv2, cx2, w)
  BY <1>10, <1>11, <1>12, <1>13, <1>14, <1>15, <1>16 DEF Tables
<1> QED BY <1>17 DEF k2, m2, ss2, cx2, lv2

\* A new session takes a free descriptor and a free block.
LEMMA OpenSession ==
    ASSUME NEW k, NEW m, NEW ss, NEW fl, NEW cf, NEW cp, NEW lv, NEW cx, NEW w,
           Tables(k, m, ss, fl, cf, cp, lv, cx, w),
           NEW s \in Session \ lv, NEW f \in Fd, k[f] = "free", NEW c \in Context,
           c.conn = f, c.closed, c.buf = 0, ~c.close, c.cgi = Nil
    PROVE  Tables([k EXCEPT ![f] = "conn"], [m EXCEPT ![f] = {"READ"}],
                  [ss EXCEPT ![f] = s], fl, cf, cp, lv \union {s},
                  [cx EXCEPT ![s] = c], w)
<1> DEFINE k2 == [k EXCEPT ![f] = "conn"]
           m2 == [m EXCEPT ![f] = {"READ"}]
           ss2 == [ss EXCEPT ![f] = s]
           cx2 == [cx EXCEPT ![s] = c]
           lv2 == lv \union {s}
<1>0. /\ k \in [Fd -> Kind] /\ m \in [Fd -> SUBSET PollBit]
      /\ ss \in [Fd -> Session \union {Nil}] /\ cx \in [Session -> Context]
      /\ lv \in SUBSET Session /\ s # Nil /\ s \notin lv
  BY NilAssumption DEF Tables, Typed
<1>1. /\ k2 \in [Fd -> Kind]
      /\ \A g \in Fd : k2[g] = IF g = f THEN "conn" ELSE k[g]
  BY <1>0 DEF Kind
<1>2. /\ m2 \in [Fd -> SUBSET PollBit]
      /\ \A g \in Fd : m2[g] = IF g = f THEN {"READ"} ELSE m[g]
  BY <1>0 DEF PollBit
<1>3. /\ ss2 \in [Fd -> Session \union {Nil}]
      /\ \A g \in Fd : ss2[g] = IF g = f THEN s ELSE ss[g]
  BY <1>0
<1>4. /\ cx2 \in [Session -> Context]
      /\ \A t \in Session : cx2[t] = IF t = s THEN c ELSE cx[t]
  BY <1>0
<1>5. /\ lv2 \in SUBSET Session /\ \A t \in lv2 : t \in lv \/ t = s
      /\ s \in lv2 /\ \A t \in lv : t \in lv2 /\ t # s
  BY <1>0
<1>6. ss[f] = Nil /\ \A t \in lv : cx[t].conn # f
  BY DEF Tables, SessionsOK
<1> HIDE DEF k2, m2, ss2, cx2, lv2
<1>7. Typed(k2, m2, ss2, fl, cf, cp, lv2, cx2, w)
  BY <1>1, <1>2, <1>3, <1>4, <1>5 DEF Tables, Typed
<1>8. ListenersOK(k2, m2)
  BY <1>1, <1>2, FdAssumption DEF Tables, ListenersOK
<1>9. SessionsOK(k2, m2, ss2, lv2, cx2)
  <2>1. \A t \in lv2 : /\ cx2[t].conn \in Fd
                       /\ k2[cx2[t].conn] = "conn"
                       /\ ss2[cx2[t].conn] = t
                       /\ "READ" \in m2[cx2[t].conn]
    BY <1>0, <1>1, <1>2, <1>3, <1>4, <1>5, <1>6 DEF Tables, SessionsOK
  <2>2. \A g \in Fd : ss2[g] # Nil => ss2[g] \in lv2 /\ cx2[ss2[g]].conn = g
    BY <1>0, <1>3, <1>4, <1>5 DEF Tables, SessionsOK
  <2> QED BY <2>1, <2>2 DEF SessionsOK
<1>10. FilesOK(k2, m2, fl, lv2, cx2)
  BY <1>0, <1>1, <1>2, <1>4, <1>5 DEF Tables, FilesOK
<1>11. CgiOK(k2, cf, cp, cx2, w)
  <2>1. \A p \in Pid : cp[p] # Nil => cp[p].in \in Fd /\ cp[p].out \in Fd
    BY DEF Tables, Typed, Entry
  <2>2. \A t \in Session : cx2[t].cgi \in Pid => cp[cx2[t].cgi] # Nil
    BY <1>4, NilAssumption DEF Tables, CgiOK
  <2> QED BY <1>1, <2>1, <2>2 DEF Tables, CgiOK
<1>12. PolledOK(m2, ss2, fl, cf)
  BY <1>0, <1>2, <1>3 DEF Tables, PolledOK
<1>13. ArmedOK(m2, lv2, cx2)
  BY <1>0, <1>2, <1>4, <1>5, <1>6 DEF Tables, ArmedOK, SessionsOK
<1>14. Tables(k2, m2, ss2, fl, cf, cp, lv2, cx2, w)
  BY <1>7, <1>8, <1>9, <1>10, <1>11, <1>12, <1>13 DEF Tables
<1> QED BY <1>14 DEF k2, m2, ss2, cx2, lv2

\* A descriptor lost by accept or by a listing concerns no table.
LEMMA LoseDescriptor ==
    ASSUME NEW k, NEW m, NEW ss, NEW fl, NEW cf, NEW cp, NEW lv, NEW cx, NEW w,
           Tables(k, m, ss, fl, cf, cp, lv, cx, w),
           NEW f \in Fd, k[f] = "free", NEW lost \in {"leaked", "dir"}
    PROVE  Tables([k EXCEPT ![f] = lost], m, ss, fl, cf, cp, lv, cx, w)
<1> DEFINE k2 == [k EXCEPT ![f] = lost]
<1>1. /\ k2 \in [Fd -> Kind]
      /\ \A g \in Fd : k2[g] = IF g = f THEN lost ELSE k[g]
  BY DEF Tables, Typed, Kind
<1>2. \A p \in Pid : cp[p] # Nil => cp[p].in \in Fd /\ cp[p].out \in Fd
  BY DEF Tables, Typed, Entry
<1> HIDE DEF k2
<1>3. Typed(k2, m, ss, fl, cf, cp, lv, cx, w)
  BY <1>1 DEF Tables, Typed
<1>4. ListenersOK(k2, m)
  BY <1>1, FdAssumption DEF Tables, ListenersOK
<1>5. SessionsOK(k2, m, ss, lv, cx)
  BY <1>1 DEF Tables, SessionsOK
<1>6. FilesOK(k2, m, fl, lv, cx)
  BY <1>1 DEF Tables, FilesOK
<1>7. CgiOK(k2, cf, cp, cx, w)
  BY <1>1, <1>2 DEF Tables, CgiOK
<1>8. Tables(k2, m, ss, fl, cf, cp, lv, cx, w)
  BY <1>3, <1>4, <1>5, <1>6, <1>7 DEF Tables
<1> QED BY <1>8 DEF k2

\* A CGI worker takes two free descriptors and a process id.
LEMMA StartWorker ==
    ASSUME NEW k, NEW m, NEW ss, NEW fl, NEW cf, NEW cp, NEW lv, NEW cx, NEW w,
           Tables(k, m, ss, fl, cf, cp, lv, cx, w),
           NEW s \in lv, NEW p \in Pid, w[p] = "none",
           NEW i \in Fd, NEW o \in Fd, i # o, k[i] = "free", k[o] = "free",
           NEW b \in BOOLEAN
    PROVE  Tables([k EXCEPT ![i] = "cgiIn", ![o] = "cgiOut"],
                  [m EXCEPT ![i] = IF b THEN {"WRITE"} ELSE {}, ![o] = {"READ"}],
                  ss, fl, [cf EXCEPT ![i] = s, ![o] = s],
                  [cp EXCEPT ![p] = [in |-> i, out |-> o, body |-> b]],
                  lv, cx, [w EXCEPT ![p] = "run"])
<1> DEFINE k2 == [k EXCEPT ![i] = "cgiIn", ![o] = "cgiOut"]
           m2 == [m EXCEPT ![i] = IF b THEN {"WRITE"} ELSE {}, ![o] = {"READ"}]
           cf2 == [cf EXCEPT ![i] = s, ![o] = s]
           e == [in |-> i, out |-> o, body |-> b]
           cp2 == [cp EXCEPT ![p] = e]
           w2 == [w EXCEPT ![p] = "run"]
<1>0. /\ k \in [Fd -> Kind] /\ m \in [Fd -> SUBSET PollBit]
      /\ cf \in [Fd -> Session \union {Nil}] /\ cp \in [Pid -> Entry \union {Nil}]
      /\ w \in [Pid -> {"none", "run", "killed", "zombie"}]
      /\ s \in Session /\ s # Nil
  BY NilAssumption DEF Tables, Typed
<1>1. k2 \in [Fd -> Kind]
  BY <1>0 DEF Kind
<1>2. \A g \in Fd : k2[g] = IF g = i THEN "cgiIn" ELSE IF g = o THEN "cgiOut" ELSE k[g]
  BY <1>0
<1>3. m2 \in [Fd -> SUBSET PollBit]
  BY <1>0 DEF PollBit
<1>4. \A g \in Fd : g # i /\ g # o => m2[g] = m[g]
  BY <1>0
<1>5. /\ cf2 \in [Fd -> Session \union {Nil}]
      /\ \A g \in Fd : cf2[g] = IF g \in {i, o} THEN s ELSE cf[g]
  BY <1>0
<1>6. e \in Entry /\ e # Nil /\ e.in = i /\ e.out = o
  BY NilAssumption DEF Entry
<1> HIDE DEF e
<1>7. /\ cp2 \in [Pid -> Entry \union {Nil}]
      /\ \A q \in Pid : cp2[q] = IF q = p THEN e ELSE cp[q]
  BY <1>0, <1>6
<1>8. /\ w2 \in [Pid -> {"none", "run", "killed", "zombie"}]
      /\ \A q \in Pid : w2[q] = IF q = p THEN "run" ELSE w[q]
  BY <1>0
<1>9. \A q \in Pid : cp[q] # Nil => /\ cp[q].in \in Fd \ {i, o}
                                    /\ cp[q].out \in Fd \ {i, o}
  BY DEF Tables, Typed, Entry, CgiOK
<1> HIDE DEF k2, m2, cf2, cp2, w2
<1>10. Typed(k2, m2, ss, fl, cf2, cp2, lv, cx, w2)
  BY <1>1, <1>3, <1>5, <1>7, <1>8 DEF Tables, Typed
<1>11. ListenersOK(k2, m2)
  BY <1>2, <1>4, FdAssumption DEF Tables, ListenersOK
<1>12. SessionsOK(k2, m2, ss, lv, cx)
  BY <1>2, <1>4 DEF Tables, SessionsOK
<1>13. FilesOK(k2, m2, fl, lv, cx)
  BY <1>2, <1>4 DEF Tables, FilesOK
<1>14. CgiOK(k2, cf2, cp2, cx, w2)
  BY <1>2, <1>5, <1>6, <1>7, <1>8, <1>9 DEF Tables, CgiOK
<1>15. PolledOK(m2, ss, fl, cf2)
  BY <1>0, <1>4, <1>5 DEF Tables, PolledOK
<1>16. ArmedOK(m2, lv, cx)
  BY <1>2, <1>4 DEF Tables, ArmedOK, SessionsOK
<1>17. Tables(k2, m2, ss, fl, cf2, cp2, lv, cx, w2)
  BY <1>10, <1>11, <1>12, <1>13, <1>14, <1>15, <1>16 DEF Tables
<1> QED BY <1>17 DEF k2, m2, cf2, cp2, w2, e

\* __StopCgiRead and __StopCgiWrite: ends of pipes leave the poller and
\* __cgi_fd_map.
LEMMA StopEnds ==
    ASSUME NEW k, NEW m, NEW ss, NEW fl, NEW cf, NEW cp, NEW lv, NEW cx, NEW w,
           Tables(k, m, ss, fl, cf, cp, lv, cx, w),
           NEW f \in Fd, k[f] \in {"cgiIn", "cgiOut"}
    PROVE  Tables(k, [m EXCEPT ![f] = {}], ss, fl, [cf EXCEPT ![f] = Nil],
                  cp, lv, cx, w)
<1> DEFINE m2 == [m EXCEPT ![f] = {}]
           cf2 == [cf EXCEPT ![f] = Nil]
<1>0. m \in [Fd -> SUBSET PollBit] /\ cf \in [Fd -> Session \union {Nil}]
  BY DEF Tables, Typed
<1>1. /\ m2 \in [Fd -> SUBSET PollBit]
      /\ \A g \in Fd : m2[g] = IF g = f THEN {} ELSE m[g]
  BY <1>0
<1>2. /\ cf2 \in [Fd -> Session \union {Nil}]
      /\ \A g \in Fd : cf2[g] = IF g = f THEN Nil ELSE cf[g]
  BY <1>0
<1> HIDE DEF m2, cf2
<1>3. Typed(k, m2, ss, fl, cf2, cp, lv, cx, w)
  BY <1>1, <1>2 DEF Tables, Typed
<1>4. ListenersOK(k, m2)
  BY <1>1, FdAssumption DEF Tables, ListenersOK
<1>5. SessionsOK(k, m2, ss, lv, cx)
  BY <1>1 DEF Tables, SessionsOK
<1>6. FilesOK(k, m2, fl, lv, cx)
  BY <1>1 DEF Tables, FilesOK
<1>7. CgiOK(k, cf2, cp, cx, w)
  BY <1>2 DEF Tables, CgiOK
<1>8. PolledOK(m2, ss, fl, cf2)
  BY <1>1, <1>2 DEF Tables, PolledOK
<1>9. ArmedOK(m2, lv, cx)
  BY <1>1 DEF Tables, ArmedOK, SessionsOK
<1>10. Tables(k, m2, ss, fl, cf2, cp, lv, cx, w)
  BY <1>3, <1>4, <1>5, <1>6, <1>7, <1>8, <1>9 DEF Tables
<1> QED BY <1>10 DEF m2, cf2

\* A worker that runs may be killed, a killed one or a running one may exit;
\* the rest of a request body may have been written to it.
LEMMA ChangeWorkers ==
    ASSUME NEW k, NEW m, NEW ss, NEW fl, NEW cf, NEW cp, NEW lv, NEW cx, NEW w,
           Tables(k, m, ss, fl, cf, cp, lv, cx, w),
           NEW cp2 \in [Pid -> Entry \union {Nil}],
           NEW w2 \in [Pid -> {"none", "run", "killed", "zombie"}],
           \A p \in Pid : /\ cp2[p] = Nil <=> cp[p] = Nil
                          /\ cp[p] # Nil => cp2[p].in = cp[p].in /\ cp2[p].out = cp[p].out
                          /\ w2[p] = "none" <=> w[p] = "none"
    PROVE  Tables(k, m, ss, fl, cf, cp2, lv, cx, w2)
<1>1. Typed(k, m, ss, fl, cf, cp2, lv, cx, w2)
  BY DEF Tables, Typed
<1>2. CgiOK(k, cf, cp2, cx, w2)
  BY DEF Tables, CgiOK
<1> QED BY <1>1, <1>2 DEF Tables

\* Exited workers are reaped: their pipes leave every table, the sessions
\* that link to them are left with dangling pointers.
LEMMA ReapWorkers ==
    ASSUME NEW k, NEW m, NEW ss, NEW fl, NEW cf, NEW cp, NEW lv, NEW cx, NEW w,
           Tables(k, m, ss, fl, cf, cp, lv, cx, w),
           NEW D \in SUBSET Pid, \A p \in D : cp[p] # Nil,
           NEW F, F = {cp[p].in : p \in D} \union {cp[p].out : p \in D}
    PROVE  Tables(Put(k, F, "ended"), Put(m, F, {}), ss, fl, Put(cf, F, Nil),
                  Put(cp, D, Nil), lv,
                  [s \in Session |-> IF cx[s].cgi \in D
                                     THEN [cx[s] EXCEPT !.cgi = Dangling] ELSE cx[s]],
                  Put(w, D, "none"))
<1> DEFINE k2 == Put(k, F, "ended")
           m2 == Put(m, F, {})
           cf2 == Put(cf, F, Nil)
           cp2 == Put(cp, D, Nil)
           cx2 == [s \in Session |-> IF cx[s].cgi \in D
                                     THEN [cx[s] EXCEPT !.cgi = Dangling] ELSE cx[s]]
           w2 == Put(w, D, "none")
<1>0. /\ k \in [Fd -> Kind] /\ m \in [Fd -> SUBSET PollBit]
      /\ cf \in [Fd -> Session \union {Nil}] /\ cp \in [Pid -> Entry \union {Nil}]
      /\ cx \in [Session -> Context]
      /\ w \in [Pid -> {"none", "run", "killed", "zombie"}] /\ lv \in SUBSET Session
  BY DEF Tables, Typed
<1>1. /\ k2 \in [Fd -> Kind]
      /\ \A g \in Fd : k2[g] = IF g \in F THEN "ended" ELSE k[g]
  BY <1>0 DEF Put, Kind
<1>2. /\ m2 \in [Fd -> SUBSET PollBit]
      /\ \A g \in Fd : m2[g] = IF g \in F THEN {} ELSE m[g]
  BY <1>0 DEF Put
<1>3. /\ cf2 \in [Fd -> Session \union {Nil}]
      /\ \A g \in Fd : cf2[g] = IF g \in F THEN Nil ELSE cf[g]
  BY <1>0 DEF Put
<1>4. /\ cp2 \in [Pid -> Entry \union {Nil}]
      /\ \A p \in Pid : cp2[p] = IF p \in D THEN Nil ELSE cp[p]
  BY <1>0 DEF Put
<1>5. /\ w2 \in [Pid -> {"none", "run", "killed", "zombie"}]
      /\ \A p \in Pid : w2[p] = IF p \in D THEN "none" ELSE w[p]
  BY <1>0 DEF Put
<1>6. cx2 \in [Session -> Context]
  <2> SUFFICES ASSUME NEW s \in Session PROVE cx2[s] \in Context
    OBVIOUS
  <2>1. cx[s] \in Context
    BY <1>0
  <2> QED BY <2>1 DEF Context
<1>7. \A s \in Session : /\ cx2[s].conn = cx[s].conn /\ cx2[s].buf = cx[s].buf
                         /\ cx2[s].close = cx[s].close /\ cx2[s].file = cx[s].file
                         /\ cx2[s].closed = cx[s].closed
                         /\ cx2[s].cgi = IF cx[s].cgi \in D THEN Dangling ELSE cx[s].cgi
  <2> SUFFICES ASSUME NEW s \in Session
               PROVE  /\ cx2[s].conn = cx[s].conn /\ cx2[s].buf = cx[s].buf
                      /\ cx2[s].close = cx[s].close /\ cx2[s].file = cx[s].file
                      /\ cx2[s].closed = cx[s].closed
                      /\ cx2[s].cgi = IF cx[s].cgi \in D THEN Dangling ELSE cx[s].cgi
    OBVIOUS
  <2>1. cx[s] \in Context
    BY <1>0
  <2> QED BY <2>1 DEF Context
<1>8. \A g \in F : g \in Fd /\ k[g] \in {"cgiIn", "cgiOut"}
  BY <1>0 DEF Tables, CgiOK, Entry
<1>9. \A p \in Pid : cp[p] # Nil => cp[p].in \in Fd /\ cp[p].out \in Fd
  BY <1>0 DEF Entry
<1>10. \A p \in Pid \ D : cp[p] # Nil => cp[p].in \notin F /\ cp[p].out \notin F
  BY <1>0 DEF Tables, CgiOK
<1> HIDE DEF k2, m2, cf2, cp2, cx2, w2
<1>11. Typed(k2, m2, ss, fl, cf2, cp2, lv, cx2, w2)
  BY <1>1, <1>2, <1>3, <1>4, <1>5, <1>6 DEF Tables, Typed
<1>12. ListenersOK(k2, m2)
  BY <1>1, <1>2, <1>8, FdAssumption DEF Tables, ListenersOK
<1>13. SessionsOK(k2, m2, ss, lv, cx2)
  BY <1>0, <1>1, <1>2, <1>7, <1>8 DEF Tables, SessionsOK
<1>14. FilesOK(k2, m2, fl, lv, cx2)
  BY <1>0, <1>1, <1>2, <1>7, <1>8 DEF Tables, FilesOK
<1>15. CgiOK(k2, cf2, cp2, cx2, w2)
  <2>1. \A p \in Pid : cp2[p] # Nil <=> w2[p] # "none"
    BY <1>4, <1>5 DEF Tables, CgiOK
  <2>2. \A p \in Pid : cp2[p] # Nil => k2[cp2[p].in] = "cgiIn" /\ k2[cp2[p].out] = "cgiOut"
    BY <1>1, <1>4, <1>9, <1>10 DEF Tables, CgiOK
  <2>3. \A p, q \in Pid : cp2[p] # Nil /\ cp2[q] # Nil /\ p # q =>
            cp2[p].in # cp2[q].in /\ cp2[p].out # cp2[q].out
    BY <1>4 DEF Tables, CgiOK
  <2>4. \A g \in Fd : cf2[g] # Nil =>
            \E p \in Pid : cp2[p] # Nil /\ g \in {cp2[p].in, cp2[p].out}
    <3> SUFFICES ASSUME NEW g \in Fd, cf2[g] # Nil
                 PROVE  \E p \in Pid : cp2[p] # Nil /\ g \in {cp2[p].in, cp2[p].out}
      OBVIOUS
    <3>1. g \notin F /\ cf[g] # Nil
      BY <1>3
    <3>2. PICK p \in Pid : cp[p] # Nil /\ g \in {cp[p].in, cp[p].out}
      BY <3>1 DEF Tables, CgiOK
    <3>3. p \notin D
      BY <3>1, <3>2
    <3> QED BY <1>4, <3>2, <3>3
  <2>5. \A s \in Session : cx2[s].cgi \in Pid => cp2[cx2[s].cgi] # Nil
    BY <1>4, <1>7, NilAssumption DEF Tables, CgiOK
  <2> QED BY <2>1, <2>2, <2>3, <2>4, <2>5 DEF CgiOK
<1>16. PolledOK(m2, ss, fl, cf2)
  BY <1>2, <1>3 DEF Tables, PolledOK
<1>17. ArmedOK(m2, lv, cx2)
  BY <1>0, <1>2, <1>7, <1>8 DEF Tables, ArmedOK, SessionsOK
<1>18. Tables(k2, m2, ss, fl, cf2, cp2, lv, cx2, w2)
  BY <1>11, <1>12, <1>13, <1>14, <1>15, <1>16, <1>17 DEF Tables
<1> QED BY <1>18 DEF k2, m2, cf2, cp2, cx2, w2

\* A session with nothing to send need not be watched for writing.
LEMMA Disarm ==
    ASSUME NEW k, NEW m, NEW ss, NEW fl, NEW cf, NEW cp, NEW lv, NEW cx, NEW w,
           Tables(k, m, ss, fl, cf, cp, lv, cx, w), NEW s \in lv,
           ~(cx[s].buf > 0 \/ cx[s].close)
    PROVE  Tables(k, [m EXCEPT ![cx[s].conn] = @ \ {"WRITE"}],
                  ss, fl, cf, cp, lv, cx, w)
<1> DEFINE g == cx[s].conn
           n == [m EXCEPT ![g] = @ \ {"WRITE"}]
<1>0. /\ m \in [Fd -> SUBSET PollBit] /\ g \in Fd /\ k[g] = "conn" /\ ss[g] = s
      /\ s # Nil
  BY NilAssumption DEF Tables, Typed, SessionsOK
<1>1. /\ n \in [Fd -> SUBSET PollBit]
      /\ \A f \in Fd : n[f] = IF f = g THEN m[f] \ {"WRITE"} ELSE m[f]
  BY <1>0
<1>2. \A t \in lv : t # s => cx[t].conn # g
  BY <1>0 DEF Tables, SessionsOK
<1> HIDE DEF n
<1>3. Typed(k, n, ss, fl, cf, cp, lv, cx, w)
  BY <1>1 DEF Tables, Typed
<1>4. ListenersOK(k, n)
  BY <1>0, <1>1, FdAssumption DEF Tables, ListenersOK
<1>5. SessionsOK(k, n, ss, lv, cx)
  BY <1>0, <1>1 DEF Tables, SessionsOK
<1>6. FilesOK(k, n, fl, lv, cx)
  BY <1>0, <1>1 DEF Tables, FilesOK
<1>7. PolledOK(n, ss, fl, cf)
  BY <1>0, <1>1 DEF Tables, PolledOK
<1>8. ArmedOK(n, lv, cx)
  BY <1>0, <1>1, <1>2 DEF Tables, ArmedOK, SessionsOK
<1>9. Tables(k, n, ss, fl, cf, cp, lv, cx, w)
  BY <1>3, <1>4, <1>5, <1>6, <1>7, <1>8 DEF Tables
<1> QED BY <1>9 DEF n

-----------------------------------------------------------------------------
(* The ends of the handlers: tables as a handler has changed them so far,  *)
(* with its context c, to tables as it leaves them.                        *)

LEMMA ResponseStep ==
    ASSUME NEW k, NEW m, NEW fl, NEW cf, NEW cp, NEW w, NEW s \in live, NEW c \in Context,
           ctx \in [Session -> Context], live \subseteq Session,
           Tables(k, m, sessions, fl, cf, cp, live, [ctx EXCEPT ![s] = c], w),
           OnHttpResponse(s, c, k, m, fl)
    PROVE  Tables(kind', mask', sessions, files', cf, cp, live, ctx', w)
<1> DEFINE x == [ctx EXCEPT ![s] = c]
           d == [c EXCEPT !.close = @ \/ c.v10, !.buf = @ + 1, !.owed = @ - 1]
<1>1. x[s] = c /\ [x EXCEPT ![s] = d] = [ctx EXCEPT ![s] = d]
  OBVIOUS
<1>2. /\ d \in Context /\ d.conn = c.conn /\ d.file = c.file /\ d.closed = c.closed
      /\ d.cgi = c.cgi
  <2> DEFINE close == c.close \/ c.v10
             buf   == c.buf + 1
             owed  == c.owed - 1
  <2>1. close \in BOOLEAN
    OBVIOUS
  <2>2. buf \in Nat /\ owed \in Int
    BY DEF Context
  <2>3. d = [c EXCEPT !.close = close, !.buf = buf, !.owed = owed]
    OBVIOUS
  <2> HIDE DEF close, buf, owed, d
  <2> QED BY <2>1, <2>2, <2>3 DEF Context
<1>3. /\ kind' = k /\ files' = fl /\ ctx' = [ctx EXCEPT ![s] = d]
      /\ mask' = [m EXCEPT ![x[s].conn] = @ \union {"WRITE"}]
  BY <1>1 DEF OnHttpResponse
<1> HIDE DEF d
<1>4. Tables(k, m, sessions, fl, cf, cp, live, x, w)
  OBVIOUS
<1> HIDE DEF x
<1>5. Tables(k, mask', sessions, fl, cf, cp, live, x, w)
  BY <1>3, <1>4, Arm
<1>6. /\ ~c.closed => c.file \in Fd /\ k[c.file] = "file" /\ fl[c.file] = s
      /\ c.cgi \in Pid => cp[c.cgi] # Nil
      /\ c.conn \in Fd
  BY <1>1, <1>4 DEF Tables, FilesOK, CgiOK, SessionsOK
<1>7. "WRITE" \in mask'[d.conn]
  BY <1>1, <1>2, <1>3, <1>4, <1>6 DEF Tables, Typed
<1>8. Tables(k, mask', sessions, fl, cf, cp, live, [x EXCEPT ![s] = d], w)
  BY <1>1, <1>2, <1>5, <1>6, <1>7, ChangeContext
<1> QED BY <1>1, <1>3, <1>8

LEMMA FileStep ==
    ASSUME NEW k, NEW m, NEW fl, NEW cf, NEW cp, NEW w, NEW s \in live, NEW c \in Context,
           ctx \in [Session -> Context], live \subseteq Session,
           Tables(k, m, sessions, fl, cf, cp, live, [ctx EXCEPT ![s] = c], w),
           SendStaticFileResponse(s, c, k, m, fl)
    PROVE  Tables(kind', mask', sessions, files', cf, cp, live, ctx', w)
<1> DEFINE x == [ctx EXCEPT ![s] = c]
<1>1. PICK f \in Fd :
        /\ IsLowest({f}, k)
        /\ ctx' = [ctx EXCEPT ![s] = [c EXCEPT !.file = f, !.closed = FALSE]]
        /\ files' = [fl EXCEPT ![f] = s]
        /\ kind' = [k EXCEPT ![f] = "file"]
        /\ mask' = [m EXCEPT ![f] = {"READ"}]
  BY DEF SendStaticFileResponse
<1> DEFINE d == [c EXCEPT !.file = f, !.closed = FALSE]
<1>2. k[f] = "free"
  BY <1>1 DEF IsLowest, FreeFds
<1>3. x[s] = c /\ [x EXCEPT ![s] = d] = [ctx EXCEPT ![s] = d]
  OBVIOUS
<1>4. /\ d \in Context /\ d.conn = c.conn /\ d.file = f /\ d.buf = c.buf
      /\ d.close = c.close /\ d.cgi = c.cgi
  BY DEF Context
<1>5. ctx' = [ctx EXCEPT ![s] = d]
  BY <1>1
<1>6. Tables(k, m, sessions, fl, cf, cp, live, x, w)
  OBVIOUS
<1> HIDE DEF d, x
<1>7. Tables(kind', mask', sessions, files', cf, cp, live, x, w)
  BY <1>1, <1>2, <1>6, OpenFile
<1>8. kind'[f] = "file" /\ files'[f] = s
  BY <1>1, <1>6 DEF Tables, Typed
<1>9. /\ c.cgi \in Pid => cp[c.cgi] # Nil
      /\ c.buf > 0 \/ c.close => "WRITE" \in mask'[c.conn]
  BY <1>3, <1>7 DEF Tables, CgiOK, ArmedOK
<1>10. Tables(kind', mask', sessions, files', cf, cp, live, [x EXCEPT ![s] = d], w)
  BY <1>3, <1>4, <1>7, <1>8, <1>9, ChangeContext
<1> QED BY <1>3, <1>5, <1>10

LEMMA ErrorStep ==
    ASSUME NEW k, NEW m, NEW fl, NEW cf, NEW cp, NEW w, NEW s \in live, NEW c \in Context,
           NEW page,
           ctx \in [Session -> Context], live \subseteq Session,
           Tables(k, m, sessions, fl, cf, cp, live, [ctx EXCEPT ![s] = c], w),
           OnHttpError(s, c, k, m, fl, page)
    PROVE  Tables(kind', mask', sessions, files', cf, cp, live, ctx', w)
<1>1. CASE SendStaticFileResponse(s, c, k, m, fl)
  BY <1>1, FileStep
<1>2. CASE OnHttpResponse(s, c, k, m, fl)
  BY <1>2, ResponseStep
<1> QED BY <1>1, <1>2 DEF OnHttpError

\* The fields that link a context to nothing may change, and links be dropped.
LEMMA SameLinks ==
    ASSUME NEW k, NEW m, NEW ss, NEW fl, NEW cf, NEW cp, NEW lv, NEW cx, NEW w,
           NEW s \in lv, NEW c \in Context, NEW d \in Context,
           cx \in [Session -> Context], lv \subseteq Session,
           Tables(k, m, ss, fl, cf, cp, lv, [cx EXCEPT ![s] = c], w),
           d.conn = c.conn, d.closed \/ (~c.closed /\ d.file = c.file),
           d.buf = c.buf, d.close = c.close, d.cgi \in {c.cgi, Nil}
    PROVE  Tables(k, m, ss, fl, cf, cp, lv, [cx EXCEPT ![s] = d], w)
<1> DEFINE x == [cx EXCEPT ![s] = c]
<1>1. x[s] = c /\ [x EXCEPT ![s] = d] = [cx EXCEPT ![s] = d]
  OBVIOUS
<1>2. Tables(k, m, ss, fl, cf, cp, lv, x, w)
  OBVIOUS
<1> HIDE DEF x
<1>3. /\ ~d.closed => d.file \in Fd /\ k[d.file] = "file" /\ fl[d.file] = s
      /\ d.cgi \in Pid => cp[d.cgi] # Nil
      /\ d.buf > 0 \/ d.close => "WRITE" \in m[d.conn]
  BY <1>1, <1>2, NilAssumption DEF Tables, FilesOK, CgiOK, ArmedOK
<1>4. Tables(k, m, ss, fl, cf, cp, lv, [x EXCEPT ![s] = d], w)
  BY <1>1, <1>2, <1>3, ChangeContext
<1> QED BY <1>1, <1>4

LEMMA CgiStep ==
    ASSUME NEW s \in live, NEW c \in Context, NEW body \in BOOLEAN, NEW page,
           ctx \in [Session -> Context], live \subseteq Session, pipe \in [Pid -> Nat],
           Tables(kind, mask, sessions, files, cgiFds, cgiPids, live,
                  [ctx EXCEPT ![s] = c], worker),
           HandleCgiRequest(s, c, body, page)
    PROVE  /\ Tables(kind', mask', sessions, files', cgiFds', cgiPids', live, ctx', worker')
           /\ pipe' \in [Pid -> Nat]
<1> DEFINE x == [ctx EXCEPT ![s] = c]
<1>0. x[s] = c /\ Tables(kind, mask, sessions, files, cgiFds, cgiPids, live, x, worker)
  OBVIOUS
<1>1. CASE /\ OnHttpError(s, c, kind, mask, files, page)
           /\ UNCHANGED <<cgiFds, cgiPids, worker, pipe>>
  BY <1>1, ErrorStep
<1>2. CASE \E a, i, o, z \in FreeFds(kind), p \in Pid :
          /\ a < i /\ i < o /\ o < z /\ IsLowest({a, i, o, z}, kind)
          /\ worker[p] = "none"
          /\ cgiPids' = [cgiPids EXCEPT ![p] = [in |-> i, out |-> o, body |-> body]]
          /\ cgiFds' = [cgiFds EXCEPT ![i] = s, ![o] = s]
          /\ kind' = [kind EXCEPT ![i] = "cgiIn", ![o] = "cgiOut"]
          /\ mask' = [mask EXCEPT ![i] = IF body THEN {"WRITE"} ELSE {},
                                  ![o] = {"READ"}]
          /\ ctx' = [ctx EXCEPT ![s] = [c EXCEPT !.cgi = p]]
          /\ worker' = [worker EXCEPT ![p] = "run"]
          /\ pipe' = [pipe EXCEPT ![p] = 0]
          /\ files' = files
  <2>1. PICK a \in Fd, i \in Fd, o \in Fd, z \in Fd, p \in Pid :
          /\ a < i /\ i < o /\ o < z /\ IsLowest({a, i, o, z}, kind)
          /\ worker[p] = "none"
          /\ cgiPids' = [cgiPids EXCEPT ![p] = [in |-> i, out |-> o, body |-> body]]
          /\ cgiFds' = [cgiFds EXCEPT ![i] = s, ![o] = s]
          /\ kind' = [kind EXCEPT ![i] = "cgiIn", ![o] = "cgiOut"]
          /\ mask' = [mask EXCEPT ![i] = IF body THEN {"WRITE"} ELSE {},
                                  ![o] = {"READ"}]
          /\ ctx' = [ctx EXCEPT ![s] = [c EXCEPT !.cgi = p]]
          /\ worker' = [worker EXCEPT ![p] = "run"]
          /\ pipe' = [pipe EXCEPT ![p] = 0]
          /\ files' = files
    BY <1>2 DEF FreeFds
  <2> DEFINE d == [c EXCEPT !.cgi = p]
  <2>2. i # o /\ kind[i] = "free" /\ kind[o] = "free"
    BY <2>1, FdAssumption DEF IsLowest, FreeFds
  <2>3. /\ d \in Context /\ d.conn = c.conn /\ d.file = c.file /\ d.closed = c.closed
        /\ d.buf = c.buf /\ d.close = c.close /\ d.cgi = p
    BY DEF Context
  <2>4. [x EXCEPT ![s] = d] = [ctx EXCEPT ![s] = d] /\ ctx' = [ctx EXCEPT ![s] = d]
    BY <2>1
  <2> HIDE DEF d, x
  <2>5. Tables(kind', mask', sessions, files', cgiFds', cgiPids', live, x, worker')
    BY <1>0, <2>1, <2>2, StartWorker
  <2>6. cgiPids'[p] # Nil
    <3>1. worker'[p] = "run"
      BY <1>0, <2>1 DEF Tables, Typed
    <3> QED BY <2>5, <3>1 DEF Tables, CgiOK
  <2>7. /\ ~c.closed => /\ c.file \in Fd /\ kind'[c.file] = "file"
                        /\ files'[c.file] = s
        /\ c.buf > 0 \/ c.close => "WRITE" \in mask'[c.conn]
    BY <1>0, <2>5 DEF Tables, FilesOK, ArmedOK
  <2>8. Tables(kind', mask', sessions, files', cgiFds', cgiPids', live,
               [x EXCEPT ![s] = d], worker')
    BY <1>0, <2>3, <2>5, <2>6, <2>7, ChangeContext
  <2>9. pipe' \in [Pid -> Nat]
    BY <2>1
  <2> QED BY <2>4, <2>8, <2>9
<1> QED BY <1>1, <1>2 DEF HandleCgiRequest

LEMMA RequestStep ==
    ASSUME NEW s \in live, NEW c \in Context, NEW q \in Requests,
           ctx \in [Session -> Context], live \subseteq Session, pipe \in [Pid -> Nat],
           Tables(kind, mask, sessions, files, cgiFds, cgiPids, live,
                  [ctx EXCEPT ![s] = c], worker),
           HandleRequest(s, c, q)
    PROVE  /\ Tables(kind', mask', sessions, files', cgiFds', cgiPids', live, ctx', worker')
           /\ pipe' \in [Pid -> Nat]
<1> DEFINE d == [c EXCEPT !.v10 = q.v10, !.server = Resolved(q.scenario)]
           page == q.scenario.errpage
<1>1. q.v10 \in BOOLEAN /\ q.body \in BOOLEAN /\ Resolved(q.scenario) \in BOOLEAN
  BY ReqAssumption DEF Request, Resolved
<1>2. /\ d \in Context /\ d.conn = c.conn /\ d.file = c.file /\ d.closed = c.closed
      /\ d.buf = c.buf /\ d.close = c.close /\ d.cgi = c.cgi
  BY <1>1 DEF Context
<1>3. \/ /\ OnHttpResponse(s, d, kind, mask, files)
         /\ UNCHANGED <<cgiFds, cgiPids, worker, pipe>>
      \/ /\ SendDirectoryListing(s, d, page)
         /\ UNCHANGED <<cgiFds, cgiPids, worker, pipe>>
      \/ /\ OnHttpError(s, d, kind, mask, files, page)
         /\ UNCHANGED <<cgiFds, cgiPids, worker, pipe>>
      \/ /\ SendStaticFileResponse(s, d, kind, mask, files)
         /\ UNCHANGED <<cgiFds, cgiPids, worker, pipe>>
      \/ HandleCgiRequest(s, d, q.body, page)
  BY DEF HandleRequest
<1> HIDE DEF d, page
<1>4. Tables(kind, mask, sessions, files, cgiFds, cgiPids, live,
             [ctx EXCEPT ![s] = d], worker)
  <2>1. d.closed \/ (~c.closed /\ d.file = c.file)
    BY <1>2 DEF Context
  <2> QED BY <1>2, <2>1, SameLinks
<1>5. CASE /\ OnHttpResponse(s, d, kind, mask, files)
           /\ UNCHANGED <<cgiFds, cgiPids, worker, pipe>>
  BY <1>2, <1>4, <1>5, ResponseStep
<1>6. CASE /\ OnHttpError(s, d, kind, mask, files, page)
           /\ UNCHANGED <<cgiFds, cgiPids, worker, pipe>>
  BY <1>2, <1>4, <1>6, ErrorStep
<1>7. CASE /\ SendStaticFileResponse(s, d, kind, mask, files)
           /\ UNCHANGED <<cgiFds, cgiPids, worker, pipe>>
  BY <1>2, <1>4, <1>7, FileStep
<1>8. CASE HandleCgiRequest(s, d, q.body, page)
  BY <1>1, <1>2, <1>4, <1>8, CgiStep
<1>9. CASE /\ SendDirectoryListing(s, d, page)
           /\ UNCHANGED <<cgiFds, cgiPids, worker, pipe>>
  <2>1. CASE FreeFds(kind) = {} /\ OnHttpError(s, d, kind, mask, files, page)
    BY <1>2, <1>4, <1>9, <2>1, ErrorStep
  <2>2. CASE \E f \in Fd :
                /\ IsLowest({f}, kind)
                /\ OnHttpResponse(s, d, [kind EXCEPT ![f] = "dir"], mask, files)
    <3>1. PICK f \in Fd :
             /\ kind[f] = "free"
             /\ OnHttpResponse(s, d, [kind EXCEPT ![f] = "dir"], mask, files)
      BY <2>2 DEF IsLowest, FreeFds
    <3>2. Tables([kind EXCEPT ![f] = "dir"], mask, sessions, files, cgiFds, cgiPids,
                 live, [ctx EXCEPT ![s] = d], worker)
      BY <1>4, <3>1, LoseDescriptor
    <3> QED BY <1>2, <1>9, <3>1, <3>2, ResponseStep
  <2> QED BY <1>9, <2>1, <2>2 DEF SendDirectoryListing
<1> QED BY <1>3, <1>5, <1>6, <1>7, <1>8, <1>9

-----------------------------------------------------------------------------
(* The handlers *)

\* What a handler finds: the invariant, unfolded as the steps above need it.
LEMMA Unfolded ==
    ASSUME TablesInv
    PROVE  /\ ctx \in [Session -> Context] /\ live \subseteq Session
           /\ \A s \in live : /\ ctx[s] \in Context
                              /\ [ctx EXCEPT ![s] = ctx[s]] = ctx
                              /\ ctx[s].conn \in Fd
  BY DEF TablesInv, Tables, Typed, SessionsOK

\* __DeleteSessionCtx of some live sessions: the connections leave the tables
\* first, then the files these sessions had open.
LEMMA DeleteStep ==
    ASSUME TablesInv, EnvOK, srv = "up", NEW S \in SUBSET live, DeleteSessionCtx(S), srv' = srv
    PROVE  TablesInv' /\ EnvOK'
<1> DEFINE G == {ctx[s].conn : s \in S}
           F == OpenFiles(S)
<1>1. /\ kind \in [Fd -> Kind] /\ mask \in [Fd -> SUBSET PollBit]
      /\ ctx \in [Session -> Context] /\ live \subseteq Session
  BY DEF TablesInv, Tables, Typed
<1>2. Tables(Put(kind, G, "free"), Put(mask, G, {}), Put(sessions, G, Nil), files,
             cgiFds, cgiPids, live \ S, Put(ctx, S, NoContext), worker)
  BY DropSessions DEF TablesInv
<1>3. \A f \in F : f \in Fd /\ kind[f] = "file" /\ f \notin G /\ files[f] \in S
  BY DEF OpenFiles, TablesInv, Tables, FilesOK, SessionsOK
<1>4. \A f \in F : Put(kind, G, "free")[f] = "file"
  BY <1>1, <1>3 DEF Put
<1>5. \A t \in live \ S : /\ Put(ctx, S, NoContext)[t] = ctx[t]
                          /\ ~ctx[t].closed => ctx[t].file \notin F
  BY <1>1, <1>3 DEF Put, TablesInv, Tables, FilesOK
<1>6. Tables(Put(Put(kind, G, "free"), F, "free"), Put(Put(mask, G, {}), F, {}),
             Put(sessions, G, Nil), Put(files, F, Nil),
             cgiFds, cgiPids, live \ S, Put(ctx, S, NoContext), worker)
  BY <1>2, <1>3, <1>4, <1>5, CloseFiles
<1>7. /\ Put(Put(kind, G, "free"), F, "free") = Put(kind, G \union F, "free")
      /\ Put(Put(mask, G, {}), F, {}) = Put(mask, G \union F, {})
  <2> HIDE DEF G, F
  <2> QED BY <1>1 DEF Put
<1>8. /\ kind' = Put(kind, G \union F, "free") /\ mask' = Put(mask, G \union F, {})
      /\ sessions' = Put(sessions, G, Nil) /\ files' = Put(files, F, Nil)
      /\ live' = live \ S /\ ctx' = Put(ctx, S, NoContext)
      /\ UNCHANGED <<cgiFds, cgiPids, worker>>
  BY DEF DeleteSessionCtx
<1>9. TablesInv'
  <2> HIDE DEF G, F
  <2> QED BY <1>6, <1>7, <1>8 DEF TablesInv
<1>10. /\ inbox' = Put(inbox, G, 0) /\ peer' = Put(peer, G, "open")
       /\ expired' = expired \ S /\ UNCHANGED <<backlog, pipe>>
  BY DEF DeleteSessionCtx
<1>11. inbox' \in [Fd -> Nat] /\ peer' \in [Fd -> {"open", "shut", "reset"}]
  <2> HIDE DEF G
  <2> QED BY <1>10 DEF EnvOK, Put
<1>12. EnvOK'
  BY <1>8, <1>10, <1>11 DEF EnvOK
<1> QED BY <1>9, <1>12

LEMMA CrashStep ==
    ASSUME TablesInv, EnvOK, srv = "up", NEW why \in {"undefined", "write failed"}, Crash(why)
    PROVE  TablesInv' /\ EnvOK'
  BY DEF Crash, TablesInv, EnvOK, tableVars, heapVars, envVars

LEMMA ReadStep ==
    ASSUME TablesInv, EnvOK, srv = "up", NEW s \in live, OnSessionRead(s)
    PROVE  TablesInv' /\ EnvOK'
<1> DEFINE f == ctx[s].conn
           c == [ctx[s] EXCEPT !.server = FALSE, !.cgi = Nil, !.part = TRUE]
           got == [c EXCEPT !.owed = @ + 1, !.part = FALSE]
<1>0. /\ ctx \in [Session -> Context] /\ live \subseteq Session /\ f \in Fd
      /\ ctx[s] \in Context /\ [ctx EXCEPT ![s] = ctx[s]] = ctx
      /\ pipe \in [Pid -> Nat]
  BY Unfolded DEF EnvOK
<1>1. CASE DeleteSessionCtx({s}) /\ srv' = srv
  BY <1>1, DeleteStep
<1>2. CASE /\ \/ \E n \in 1..inbox[f] : inbox' = [inbox EXCEPT ![f] = @ - n]
              \/ inbox' = inbox
           /\ expired' = expired \ {s}
           /\ \/ /\ ctx' = [ctx EXCEPT ![s] = c]
                 /\ UNCHANGED <<kind, mask, files, cgiFds, cgiPids, worker, pipe>>
              \/ /\ OnHttpError(s, got, kind, mask, files, FALSE)
                 /\ UNCHANGED <<cgiFds, cgiPids, worker, pipe>>
              \/ \E q \in Requests : HandleRequest(s, got, q)
           /\ UNCHANGED <<srv, sessions, live, backlog, peer>>
  <2>1. /\ c \in Context /\ c.conn = f /\ c.file = ctx[s].file
        /\ c.closed = ctx[s].closed /\ c.buf = ctx[s].buf /\ c.close = ctx[s].close
        /\ c.cgi = Nil /\ c.closed \in BOOLEAN
    BY <1>0 DEF Context
  <2> HIDE DEF c
  <2>2. /\ got \in Context /\ got.conn = c.conn /\ got.file = c.file
        /\ got.closed = c.closed /\ got.buf = c.buf /\ got.close = c.close
        /\ got.cgi = c.cgi
    <3>1. c.owed + 1 \in Int
      BY <2>1 DEF Context
    <3> QED BY <2>1, <3>1 DEF Context
  <2> HIDE DEF f, got
  <2>3. Tables(kind, mask, sessions, files, cgiFds, cgiPids, live,
               [ctx EXCEPT ![s] = c], worker)
    <3>1. Tables(kind, mask, sessions, files, cgiFds, cgiPids, live,
                 [ctx EXCEPT ![s] = ctx[s]], worker)
      BY <1>0 DEF TablesInv
    <3>2. c.closed \/ (~ctx[s].closed /\ c.file = ctx[s].file)
      BY <2>1
    <3> QED BY <1>0, <2>1, <3>1, <3>2, SameLinks DEF f
  <2>4. Tables(kind, mask, sessions, files, cgiFds, cgiPids, live,
               [ctx EXCEPT ![s] = got], worker)
    <3>1. got.closed \/ (~c.closed /\ got.file = c.file)
      BY <2>1, <2>2
    <3> QED BY <1>0, <2>1, <2>2, <2>3, <3>1, SameLinks
  <2>5. /\ Tables(kind', mask', sessions, files', cgiFds', cgiPids', live, ctx', worker')
        /\ pipe' \in [Pid -> Nat]
    <3>1. CASE /\ ctx' = [ctx EXCEPT ![s] = c]
               /\ UNCHANGED <<kind, mask, files, cgiFds, cgiPids, worker, pipe>>
      BY <1>0, <2>3, <3>1
    <3>2. CASE /\ OnHttpError(s, got, kind, mask, files, FALSE)
               /\ UNCHANGED <<cgiFds, cgiPids, worker, pipe>>
      BY <1>0, <2>2, <2>4, <3>2, ErrorStep
    <3>3. CASE \E q \in Requests : HandleRequest(s, got, q)
      BY <1>0, <2>2, <2>4, <3>3, RequestStep
    <3> QED BY <1>2, <3>1, <3>2, <3>3
  <2>6. TablesInv'
    BY <1>2, <2>5 DEF TablesInv
  <2>7. inbox' \in [Fd -> Nat]
    <3>0. CASE inbox' = inbox
      BY <1>0, <3>0 DEF EnvOK
    <3> SUFFICES ASSUME inbox' # inbox PROVE inbox' \in [Fd -> Nat]
      BY <3>0
    <3>1. PICK n \in 1..inbox[f] : inbox' = [inbox EXCEPT ![f] = @ - n]
      BY <1>2
    <3> DEFINE rest == inbox[f] - n
    <3>2. rest \in Nat
      <4>1. inbox[f] \in Nat
        BY <1>0 DEF EnvOK, f
      <4> QED BY <4>1
    <3>3. inbox' = [inbox EXCEPT ![f] = rest]
      BY <3>1
    <3> HIDE DEF rest
    <3> QED BY <3>2, <3>3 DEF EnvOK
  <2>8. EnvOK'
    BY <1>2, <2>5, <2>7 DEF EnvOK
  <2> QED BY <2>6, <2>8
<1> QED BY <1>1, <1>2 DEF OnSessionRead

LEMMA WriteStep ==
    ASSUME TablesInv, EnvOK, srv = "up", NEW s \in live, OnSessionWrite(s)
    PROVE  TablesInv' /\ EnvOK'
<1>0. /\ ctx \in [Session -> Context] /\ live \subseteq Session
      /\ ctx[s] \in Context /\ ctx[s].conn \in Fd
  BY Unfolded
<1>1. CASE /\ ctx[s].buf = 0 /\ ~ctx[s].close
           /\ mask' = [mask EXCEPT ![ctx[s].conn] = @ \ {"WRITE"}]
           /\ expired' = expired \ {s}
           /\ UNCHANGED <<srv, kind, sessions, files, cgiFds, cgiPids, heapVars,
                          backlog, inbox, peer, worker, pipe>>
  <2>1. ~(ctx[s].buf > 0 \/ ctx[s].close)
    BY <1>1
  <2>2. Tables(kind, mask', sessions, files, cgiFds, cgiPids, live, ctx, worker)
    BY <1>1, <2>1, Disarm DEF TablesInv
  <2> QED BY <1>1, <2>2 DEF TablesInv, EnvOK, heapVars
<1>2. CASE DeleteSessionCtx({s}) /\ srv' = srv
  BY <1>2, DeleteStep
<1>3. CASE Crash("write failed")
  BY <1>3, CrashStep
<1>4. CASE /\ ctx[s].buf > 0
           /\ \E n \in Transmitted(ctx[s].buf) : ctx' = [ctx EXCEPT ![s].buf = @ - n]
           /\ expired' = expired \ {s}
           /\ UNCHANGED <<srv, tableVars, live, backlog, inbox, peer, worker, pipe>>
  <2>1. PICK n \in 0..ctx[s].buf : ctx' = [ctx EXCEPT ![s].buf = @ - n]
    BY <1>4 DEF Transmitted
  <2> DEFINE d == [ctx[s] EXCEPT !.buf = ctx[s].buf - n]
  <2>2. ctx' = [ctx EXCEPT ![s] = d]
    BY <2>1
  <2>3. ctx[s].buf - n \in Nat
    BY <1>0 DEF Context
  <2>4. /\ d \in Context /\ d.conn = ctx[s].conn /\ d.file = ctx[s].file
        /\ d.closed = ctx[s].closed /\ d.close = ctx[s].close /\ d.cgi = ctx[s].cgi
    BY <1>0, <2>3 DEF Context
  <2> HIDE DEF d
  <2>5. Tables(kind, mask, sessions, files, cgiFds, cgiPids, live, ctx', worker)
    <3>1. /\ ~d.closed => d.file \in Fd /\ kind[d.file] = "file" /\ files[d.file] = s
          /\ d.cgi \in Pid => cgiPids[d.cgi] # Nil
          /\ "WRITE" \in mask[d.conn]
      BY <1>0, <1>4, <2>4 DEF TablesInv, Tables, FilesOK, CgiOK, ArmedOK
    <3>2. Tables(kind, mask, sessions, files, cgiFds, cgiPids, live, ctx, worker)
      BY DEF TablesInv
    <3>3. Tables(kind, mask, sessions, files, cgiFds, cgiPids, live,
                 [ctx EXCEPT ![s] = d], worker)
      BY <2>4, <3>1, <3>2, ChangeContext
    <3> QED BY <2>2, <3>3
  <2> QED BY <1>4, <2>5 DEF TablesInv, EnvOK, tableVars
<1> QED BY <1>1, <1>2, <1>3, <1>4 DEF OnSessionWrite

\* A static file is closed before its response, or the error, is made.
LEMMA StaticFileStep ==
    ASSUME TablesInv, EnvOK, srv = "up", NEW s \in live, NEW ev, StaticFileEvent(s, ev)
    PROVE  TablesInv' /\ EnvOK'
<1> DEFINE c == [ctx[s] EXCEPT !.closed = TRUE]
           x == [ctx EXCEPT ![s] = c]
           k == Closed(ctx[s], kind, "free")
           m == Closed(ctx[s], mask, {})
           fl == Closed(ctx[s], files, Nil)
<1>0. /\ ctx \in [Session -> Context] /\ live \subseteq Session
      /\ ctx[s] \in Context /\ [ctx EXCEPT ![s] = ctx[s]] = ctx
  BY Unfolded
<1>1. /\ c \in Context /\ c.conn = ctx[s].conn /\ c.closed /\ c.buf = ctx[s].buf
      /\ c.close = ctx[s].close /\ c.cgi = ctx[s].cgi
  BY <1>0 DEF Context
<1>2. x[s] = c /\ \A t \in live : t # s => x[t] = ctx[t]
  BY <1>0
<1> HIDE DEF c
<1>3. Tables(kind, mask, sessions, files, cgiFds, cgiPids, live, x, worker)
  <2>1. Tables(kind, mask, sessions, files, cgiFds, cgiPids, live,
               [ctx EXCEPT ![s] = ctx[s]], worker)
    BY <1>0 DEF TablesInv
  <2> QED BY <1>0, <1>1, <2>1, SameLinks
<1> HIDE DEF x
<1>4. Tables(k, m, sessions, fl, cgiFds, cgiPids, live, x, worker)
  <2>1. CASE ctx[s].closed
    BY <1>3, <2>1 DEF Closed
  <2>2. CASE ~ctx[s].closed
    <3> DEFINE f == ctx[s].file
    <3>1. f \in Fd /\ kind[f] = "file" /\ files[f] = s
      BY <2>2 DEF TablesInv, Tables, FilesOK
    <3>2. \A t \in live : ~x[t].closed => x[t].file \notin {f}
      BY <1>1, <1>2, <3>1 DEF TablesInv, Tables, FilesOK
    <3>3. Tables(Put(kind, {f}, "free"), Put(mask, {f}, {}), sessions,
                 Put(files, {f}, Nil), cgiFds, cgiPids, live, x, worker)
      BY <1>3, <3>1, <3>2, CloseFiles
    <3>4. /\ k = Put(kind, {f}, "free") /\ m = Put(mask, {f}, {})
          /\ fl = Put(files, {f}, Nil)
      BY <2>2, <3>1 DEF Closed, Put, TablesInv, Tables, Typed
    <3> QED BY <3>3, <3>4
  <2> QED BY <2>1, <2>2
<1>5. Tables(k, m, sessions, fl, cgiFds, cgiPids, live, [ctx EXCEPT ![s] = c], worker)
  BY <1>4 DEF x
<1>6. CASE Crash("undefined")
  BY <1>6, CrashStep
<1>7. CASE UNCHANGED <<srv, tableVars, heapVars, envVars>>
  BY <1>7 DEF TablesInv, EnvOK, tableVars, heapVars, envVars
<1>8. CASE /\ OnStaticFileReadEnd(s) \/ OnStaticFileReadError(s)
           /\ UNCHANGED <<srv, sessions, cgiFds, cgiPids, live, envVars>>
  <2>1. \/ OnHttpResponse(s, c, k, m, fl)
        \/ \E page \in BOOLEAN : OnHttpError(s, c, k, m, fl, page)
    BY <1>8 DEF OnStaticFileReadEnd, OnStaticFileReadError, c
  <2> HIDE DEF k, m, fl
  <2>2. Tables(kind', mask', sessions, files', cgiFds, cgiPids, live, ctx', worker)
    BY <1>0, <1>1, <1>5, <2>1, ResponseStep, ErrorStep
  <2> QED BY <1>8, <2>2 DEF TablesInv, EnvOK, envVars
<1> QED BY <1>6, <1>7, <1>8 DEF StaticFileEvent

\* A response or an error made of the output of worker p: its ends leave the
\* poller and the map first.
LEMMA CgiEndStep ==
    ASSUME TablesInv, NEW s \in live, NEW p \in Pid, cgiPids[p] # Nil,
           OnCgiResponse(s, p) \/ OnCgiError(s, p)
    PROVE  Tables(kind', mask', sessions, files', cgiFds', cgiPids, live, ctx', worker')
<1> DEFINE e == cgiPids[p]
           m1 == Stop(mask, e.out, {})
           m2 == Stop(Stop(mask, e.in, {}), e.out, {})
           cf1 == Stop(cgiFds, e.out, Nil)
           cf2 == Stop(Stop(cgiFds, e.in, Nil), e.out, Nil)
<1>0. /\ ctx \in [Session -> Context] /\ live \subseteq Session
      /\ ctx[s] \in Context /\ [ctx EXCEPT ![s] = ctx[s]] = ctx
  BY Unfolded
<1>1. Tables(kind, mask, sessions, files, cgiFds, cgiPids, live, ctx, worker)
  BY DEF TablesInv
<1>2. e.in \in Fd /\ e.out \in Fd /\ kind[e.in] = "cgiIn" /\ kind[e.out] = "cgiOut"
  BY DEF TablesInv, Tables, Typed, Entry, CgiOK
<1>3. Tables(kind, m1, sessions, files, cf1, cgiPids, live, ctx, worker)
  <2> HIDE DEF e
  <2> QED BY <1>1, <1>2, StopEnds DEF Stop
<1>4. Tables(kind, m2, sessions, files, cf2, cgiPids, live, ctx, worker)
  <2> DEFINE m3 == Stop(mask, e.in, {})
             cf3 == Stop(cgiFds, e.in, Nil)
  <2>1. Tables(kind, m3, sessions, files, cf3, cgiPids, live, ctx, worker)
    <3> HIDE DEF e
    <3> QED BY <1>1, <1>2, StopEnds DEF Stop
  <2>2. m2 = [m3 EXCEPT ![e.out] = {}] /\ cf2 = [cf3 EXCEPT ![e.out] = Nil]
    BY DEF Stop
  <2> HIDE DEF e, m2, cf2, m3, cf3
  <2> QED BY <1>2, <2>1, <2>2, StopEnds
<1>5. CASE OnCgiResponse(s, p)
  <2>1. /\ OnHttpResponse(s, ctx[s], kind, m1, files)
        /\ cgiFds' = cf1 /\ worker' = worker
    BY <1>5 DEF OnCgiResponse
  <2> HIDE DEF m1, cf1
  <2>2. Tables(kind, m1, sessions, files, cf1, cgiPids, live,
               [ctx EXCEPT ![s] = ctx[s]], worker)
    BY <1>0, <1>3
  <2> QED BY <1>0, <2>1, <2>2, ResponseStep
<1>6. CASE OnCgiError(s, p)
  <2>1. /\ \E page \in BOOLEAN : OnHttpError(s, ctx[s], kind, m2, files, page)
        /\ cgiFds' = cf2 /\ Kill(p)
    BY <1>6 DEF OnCgiError
  <2> HIDE DEF m2, cf2
  <2>2. Tables(kind, m2, sessions, files, cf2, cgiPids, live,
               [ctx EXCEPT ![s] = ctx[s]], worker)
    BY <1>0, <1>4
  <2>3. Tables(kind', mask', sessions, files', cgiFds', cgiPids, live, ctx', worker)
    BY <1>0, <2>1, <2>2, ErrorStep
  <2>4. /\ worker' \in [Pid -> {"none", "run", "killed", "zombie"}]
        /\ \A q \in Pid : worker'[q] = "none" <=> worker[q] = "none"
    BY <2>1 DEF Kill, TablesInv, Tables, Typed
  <2>5. cgiPids \in [Pid -> Entry \union {Nil}]
    BY DEF TablesInv, Tables, Typed
  <2> QED BY <2>3, <2>4, <2>5, ChangeWorkers
<1> QED BY <1>5, <1>6

LEMMA CgiEventStep ==
    ASSUME TablesInv, EnvOK, srv = "up", NEW s \in live, NEW ev, CgiEvent(s, ev)
    PROVE  TablesInv' /\ EnvOK'
<1> DEFINE p == ctx[s].cgi
<1>0. /\ cgiPids \in [Pid -> Entry \union {Nil}]
      /\ worker \in [Pid -> {"none", "run", "killed", "zombie"}]
  BY DEF TablesInv, Tables, Typed
<1>1. p \in Pid => cgiPids[p] # Nil
  BY DEF TablesInv, Tables, Typed, CgiOK
<1>2. CASE Crash("undefined") \/ Crash("write failed")
  BY <1>2, CrashStep
<1>3. CASE /\ p \in Pid
           /\ \/ OnCgiOutput(s, p)
              \/ OnCgiInput(s, p)
              \/ OnCgiError(s, p) /\ UNCHANGED <<cgiPids, pipe>>
              \/ OnCgiHup(s, p)
           /\ UNCHANGED <<srv, sessions, live, backlog, inbox, peer, expired>>
  <2>1. CASE OnCgiHup(s, p) \/ (OnCgiError(s, p) /\ UNCHANGED <<cgiPids, pipe>>)
    BY <1>1, <1>3, <2>1, CgiEndStep DEF OnCgiHup, TablesInv, EnvOK
  <2>2. CASE OnCgiOutput(s, p)
    <3>1. cgiPids' = cgiPids
      BY <2>2 DEF OnCgiOutput
    <3>2. pipe' \in [Pid -> Nat]
      <4>1. CASE \E n \in 1..pipe[p] : pipe' = [pipe EXCEPT ![p] = @ - n]
        <5>1. PICK n \in 1..pipe[p] : pipe' = [pipe EXCEPT ![p] = @ - n]
          BY <4>1
        <5> DEFINE rest == pipe[p] - n
        <5>2. rest \in Nat
          <6>1. pipe[p] \in Nat
            BY <1>3 DEF EnvOK
          <6> QED BY <6>1
        <5>3. pipe' = [pipe EXCEPT ![p] = rest]
          BY <5>1
        <5> HIDE DEF rest
        <5> QED BY <5>2, <5>3 DEF EnvOK
      <4>2. CASE pipe' = pipe
        BY <4>2 DEF EnvOK
      <4> QED BY <2>2, <4>1, <4>2 DEF OnCgiOutput
    <3>3. Tables(kind', mask', sessions, files', cgiFds', cgiPids, live, ctx', worker')
      BY <1>1, <1>3, <2>2, CgiEndStep DEF OnCgiOutput, TablesInv
    <3> QED BY <1>3, <3>1, <3>2, <3>3 DEF TablesInv, EnvOK
  <2>3. CASE OnCgiInput(s, p)
    <3>1. UNCHANGED <<kind, files, ctx, worker, pipe>>
      BY <2>3 DEF OnCgiInput
    <3>2. CASE /\ cgiPids[p].body
               /\ \E b \in BOOLEAN : cgiPids' = [cgiPids EXCEPT ![p].body = b]
               /\ UNCHANGED <<mask, cgiFds>>
      <4>1. PICK b \in BOOLEAN : cgiPids' = [cgiPids EXCEPT ![p].body = b]
        BY <3>2
      <4> DEFINE e == [cgiPids[p] EXCEPT !.body = b]
      <4>2. cgiPids' = [cgiPids EXCEPT ![p] = e]
        BY <4>1
      <4>3. e \in Entry /\ e.in = cgiPids[p].in /\ e.out = cgiPids[p].out
        BY <1>0, <1>1, <1>3 DEF Entry
      <4>4. e # Nil
        BY <4>3, NilAssumption
      <4> HIDE DEF e, p
      <4>5. /\ cgiPids' \in [Pid -> Entry \union {Nil}]
            /\ \A q \in Pid : cgiPids'[q] = IF q = p THEN e ELSE cgiPids[q]
        BY <1>0, <4>2, <4>3
      <4>6. \A q \in Pid : /\ cgiPids'[q] = Nil <=> cgiPids[q] = Nil
                           /\ cgiPids[q] # Nil => /\ cgiPids'[q].in = cgiPids[q].in
                                                  /\ cgiPids'[q].out = cgiPids[q].out
        BY <1>1, <4>3, <4>4, <4>5
      <4>7. Tables(kind, mask, sessions, files, cgiFds, cgiPids', live, ctx, worker)
        <5>1. Tables(kind, mask, sessions, files, cgiFds, cgiPids, live, ctx, worker)
          BY DEF TablesInv
        <5> QED BY <1>0, <4>5, <4>6, <5>1, ChangeWorkers
      <4> QED BY <1>3, <3>1, <3>2, <4>7 DEF TablesInv, EnvOK
    <3>3. CASE /\ mask' = Stop(mask, cgiPids[p].in, {})
               /\ cgiFds' = Stop(cgiFds, cgiPids[p].in, Nil)
               /\ cgiPids' = cgiPids
      <4> DEFINE i == cgiPids[p].in
      <4>1. i \in Fd /\ kind[i] = "cgiIn"
        BY <1>1, <1>3 DEF TablesInv, Tables, Typed, Entry, CgiOK
      <4>2. mask' = [mask EXCEPT ![i] = {}] /\ cgiFds' = [cgiFds EXCEPT ![i] = Nil]
        BY <3>3 DEF Stop
      <4> HIDE DEF i, p
      <4>3. Tables(kind, mask', sessions, files, cgiFds', cgiPids, live, ctx, worker)
        <5>1. Tables(kind, mask, sessions, files, cgiFds, cgiPids, live, ctx, worker)
          BY DEF TablesInv
        <5> QED BY <4>1, <4>2, <5>1, StopEnds
      <4> QED BY <1>3, <3>1, <3>3, <4>3 DEF TablesInv, EnvOK
    <3> QED BY <2>3, <3>2, <3>3 DEF OnCgiInput
  <2> QED BY <1>3, <2>1, <2>2, <2>3
<1> QED BY <1>2, <1>3 DEF CgiEvent

LEMMA AcceptStep ==
    ASSUME TablesInv, EnvOK, srv = "up", OnListenerAccept
    PROVE  TablesInv' /\ EnvOK'
<1>0. Tables(kind, mask, sessions, files, cgiFds, cgiPids, live, ctx, worker)
  BY DEF TablesInv
<1>1. CASE \E f \in Fd, s \in Session \ live, v \in Garbage :
            /\ backlog > 0
            /\ IsLowest({f}, kind)
            /\ backlog' = backlog - 1
            /\ kind' = [kind EXCEPT ![f] = "conn"]
            /\ mask' = [mask EXCEPT ![f] = {"READ"}]
            /\ sessions' = [sessions EXCEPT ![f] = s]
            /\ live' = live \union {s}
            /\ ctx' = [ctx EXCEPT ![s] = [NoContext EXCEPT !.conn = f, !.v10 = v]]
            /\ srv' = srv
            /\ UNCHANGED <<files, cgiFds, cgiPids, inbox, peer, expired, worker, pipe>>
  <2>1. PICK f \in Fd, s \in Session \ live, v \in Garbage :
            /\ backlog > 0
            /\ IsLowest({f}, kind)
            /\ backlog' = backlog - 1
            /\ kind' = [kind EXCEPT ![f] = "conn"]
            /\ mask' = [mask EXCEPT ![f] = {"READ"}]
            /\ sessions' = [sessions EXCEPT ![f] = s]
            /\ live' = live \union {s}
            /\ ctx' = [ctx EXCEPT ![s] = [NoContext EXCEPT !.conn = f, !.v10 = v]]
            /\ srv' = srv
            /\ UNCHANGED <<files, cgiFds, cgiPids, inbox, peer, expired, worker, pipe>>
    BY <1>1
  <2> DEFINE c == [NoContext EXCEPT !.conn = f, !.v10 = v]
  <2>2. /\ c \in Context /\ c.conn = f /\ c.closed /\ c.buf = 0 /\ ~c.close
        /\ c.cgi = Nil
    <3>1. v \in BOOLEAN
      BY ReqAssumption
    <3>2. NoContext \in Context
      BY DEF Context, NoContext
    <3>3. /\ NoContext.closed /\ NoContext.buf = 0 /\ ~NoContext.close
          /\ NoContext.cgi = Nil
      BY DEF NoContext
    <3> QED BY <3>1, <3>2, <3>3 DEF Context
  <2>3. kind[f] = "free"
    BY <2>1 DEF IsLowest, FreeFds
  <2>4. ctx' = [ctx EXCEPT ![s] = c]
    BY <2>1
  <2> HIDE DEF c
  <2>5. Tables(kind', mask', sessions', files, cgiFds, cgiPids, live', ctx', worker)
    <3>1. Tables([kind EXCEPT ![f] = "conn"], [mask EXCEPT ![f] = {"READ"}],
                 [sessions EXCEPT ![f] = s], files, cgiFds, cgiPids,
                 live \union {s}, [ctx EXCEPT ![s] = c], worker)
      BY <1>0, <2>2, <2>3, OpenSession
    <3> QED BY <2>1, <2>4, <3>1
  <2>6. backlog' \in Nat
    <3>1. backlog \in Nat
      BY DEF EnvOK
    <3> QED BY <2>1, <3>1
  <2> QED BY <2>1, <2>5, <2>6 DEF TablesInv, EnvOK
<1>2. CASE /\ backlog > 0 /\ FreeFds(kind) # {}
           /\ backlog' = backlog - 1 /\ srv' = srv
           /\ UNCHANGED <<tableVars, heapVars, inbox, peer, expired, worker, pipe>>
  <2>1. backlog' \in Nat
    <3>1. backlog \in Nat
      BY DEF EnvOK
    <3> QED BY <1>2, <3>1
  <2> QED BY <1>2, <2>1 DEF TablesInv, EnvOK, tableVars, heapVars
<1>3. CASE \E f \in Fd :
            /\ backlog > 0
            /\ IsLowest({f}, kind)
            /\ backlog' = backlog - 1
            /\ kind' = [kind EXCEPT ![f] = "leaked"]
            /\ srv' = srv
            /\ UNCHANGED <<mask, sessions, files, cgiFds, cgiPids, heapVars,
                           inbox, peer, expired, worker, pipe>>
  <2>1. PICK f \in Fd :
            /\ IsLowest({f}, kind)
            /\ kind' = [kind EXCEPT ![f] = "leaked"]
    BY <1>3
  <2>2. kind[f] = "free"
    BY <2>1 DEF IsLowest, FreeFds
  <2>3. Tables(kind', mask, sessions, files, cgiFds, cgiPids, live, ctx, worker)
    BY <1>0, <2>1, <2>2, LoseDescriptor
  <2>4. backlog' \in Nat
    <3>1. backlog \in Nat
      BY DEF EnvOK
    <3> QED BY <1>3, <3>1
  <2> QED BY <1>3, <2>3, <2>4 DEF TablesInv, EnvOK, heapVars
<1>4. CASE srv' = srv /\ UNCHANGED <<tableVars, heapVars, envVars>>
  BY <1>4 DEF TablesInv, EnvOK, tableVars, heapVars, envVars
<1> QED BY <1>1, <1>2, <1>3, <1>4 DEF OnListenerAccept

-----------------------------------------------------------------------------
(* The loop and its environment *)

LEMMA LastOne ==
    ASSUME NEW S, NEW q \in Seq(S), Len(q) = 1
    PROVE  Tail(q) = <<>>
<1>1. q # <<>>
  OBVIOUS
<1>2. Tail(q) \in Seq(S) /\ Len(Tail(q)) = Len(q) - 1
  BY <1>1, HeadTailProperties
<1>3. Len(Tail(q)) = 0
  BY <1>2
<1>4. Tail(q) \in Seq(S)
  BY <1>2
<1> QED BY <1>3, <1>4, EmptySeq

LEMMA AtMostOne ==
    ASSUME NEW n, n = 0 \/ n = 1
    PROVE  n <= 1
  OBVIOUS

LEMMA HandleStep ==
    ASSUME IInv, srv = "up", HandleEvent
    PROVE  IInv'
<1>1. phase' = "drain" /\ evq' = <<>>
  <2>1. Len(evq) = 1 /\ evq \in Seq(Event)
    BY DEF IInv, QueueOK, LoopOK, HandleEvent
  <2>2. Tail(evq) = <<>>
    BY <2>1, LastOne
  <2> QED BY <2>2 DEF HandleEvent
<1>2. TablesInv /\ EnvOK
  BY DEF IInv
<1>3. TablesInv' /\ EnvOK'
  <2>1. CASE HandleListener
    BY <1>2, <2>1, AcceptStep DEF HandleListener
  <2>2. CASE HandleSession
    <3>1. CASE Crash("undefined")
      BY <1>2, <3>1, CrashStep
    <3>2. CASE /\ evq[1].ss \in live
               /\ \/ OnSessionRead(evq[1].ss)
                  \/ OnSessionWrite(evq[1].ss)
      BY <1>2, <3>2, ReadStep, WriteStep
    <3>3. CASE evq[1].ss \in live /\ OnSessionHup(evq[1].ss)
      BY <1>2, <3>3, DeleteStep DEF OnSessionHup
    <3> QED BY <2>2, <3>1, <3>2, <3>3 DEF HandleSession
  <2>3. CASE HandleFile
    <3>1. CASE Crash("undefined")
      BY <1>2, <3>1, CrashStep
    <3>2. CASE evq[1].ss \in live /\ StaticFileEvent(evq[1].ss, evq[1].ev)
      BY <1>2, <3>2, StaticFileStep
    <3> QED BY <2>3, <3>1, <3>2 DEF HandleFile
  <2>4. CASE HandleCgi
    <3>1. CASE Crash("undefined")
      BY <1>2, <3>1, CrashStep
    <3>2. CASE evq[1].ss \in live /\ CgiEvent(evq[1].ss, evq[1].ev)
      BY <1>2, <3>2, CgiEventStep
    <3> QED BY <2>4, <3>1, <3>2 DEF HandleCgi
  <2>5. CASE HandleDebug
    BY <1>2, <2>5 DEF HandleDebug, TablesInv, EnvOK, tableVars, heapVars, envVars
  <2> QED BY <2>1, <2>2, <2>3, <2>4, <2>5 DEF HandleEvent
<1>4. LoopOK' /\ QueueOK'
  BY <1>1 DEF LoopOK, QueueOK
<1> QED BY <1>3, <1>4 DEF IInv

\* A handler that waits keeps its event.
LEMMA BlockStep ==
    ASSUME IInv, Block
    PROVE  IInv'
<1>1. /\ phase = "drain" /\ phase' = "blocked"
      /\ UNCHANGED <<srv, evq, kind, mask, sessions, files, cgiFds, cgiPids, live, ctx,
                     backlog, inbox, peer, expired, worker, pipe>>
  BY DEF Block, tableVars, heapVars, envVars
<1>2. TablesInv' /\ EnvOK' /\ LoopOK'
  BY <1>1 DEF IInv, TablesInv, EnvOK, Unsupported, LoopOK
<1>3. QueuedEventFresh => QueuedEventFresh'
  BY <1>1 DEF QueuedEventFresh
<1>4. QueueOK'
  BY <1>1, <1>3 DEF IInv, QueueOK
<1> QED BY <1>2, <1>4 DEF IInv

\* The hooks run with an empty queue: what they delete is in no queued event.
LEMMA EmptyQueueStep ==
    ASSUME LoopOK, evq = <<>>, phase' \in {"timeout", "poll"}, evq' = evq
    PROVE  LoopOK' /\ QueueOK'
  BY DEF LoopOK, QueueOK

LEMMA ReapStep ==
    ASSUME IInv, EvaluateCgiWorkers
    PROVE  IInv'
<1> DEFINE D == Exited
           F == Ends(D)
<1>1. /\ D \in SUBSET Pid /\ \A p \in D : cgiPids[p] # Nil
      /\ F = {cgiPids[p].in : p \in D} \union {cgiPids[p].out : p \in D}
  BY DEF Exited, Ends
<1>2. /\ phase' = "timeout" /\ evq = <<>> /\ evq' = evq
      /\ mask' = Put(mask, F, {}) /\ cgiFds' = Put(cgiFds, F, Nil)
      /\ kind' = Put(kind, F, "ended") /\ cgiPids' = Put(cgiPids, D, Nil)
      /\ worker' = Put(worker, D, "none") /\ pipe' = Put(pipe, D, 0)
      /\ ctx' = [s \in Session |-> IF ctx[s].cgi \in D
                                   THEN [ctx[s] EXCEPT !.cgi = Dangling] ELSE ctx[s]]
      /\ UNCHANGED <<srv, sessions, files, live, backlog, inbox, peer, expired>>
  BY DEF EvaluateCgiWorkers
<1> HIDE DEF D, F
<1>3. TablesInv'
  <2>1. Tables(kind, mask, sessions, files, cgiFds, cgiPids, live, ctx, worker)
    BY DEF IInv, TablesInv
  <2>2. Tables(Put(kind, F, "ended"), Put(mask, F, {}), sessions, files,
               Put(cgiFds, F, Nil), Put(cgiPids, D, Nil), live,
               [s \in Session |-> IF ctx[s].cgi \in D
                                  THEN [ctx[s] EXCEPT !.cgi = Dangling] ELSE ctx[s]],
               Put(worker, D, "none"))
    BY <1>1, <2>1, ReapWorkers
  <2> QED BY <1>2, <2>2 DEF TablesInv
<1>4. pipe' \in [Pid -> Nat]
  BY <1>2 DEF IInv, EnvOK, Put
<1>5. EnvOK'
  BY <1>2, <1>4 DEF IInv, EnvOK, EvaluateCgiWorkers
<1>6. LoopOK' /\ QueueOK'
  BY <1>2, EmptyQueueStep DEF IInv
<1> QED BY <1>3, <1>5, <1>6 DEF IInv

LEMMA TimeoutStep ==
    ASSUME IInv, EvaluateIoTimeouts
    PROVE  IInv'
<1>1. evq = <<>> /\ phase' = "poll" /\ evq' = evq
  BY DEF IInv, QueueOK, EvaluateIoTimeouts
<1>2. TimedOut \in SUBSET live
  BY DEF IInv, EnvOK, TimedOut
<1>3. TablesInv' /\ EnvOK'
  BY <1>2, DeleteStep DEF IInv, EvaluateIoTimeouts
<1>4. LoopOK' /\ QueueOK'
  BY <1>1, EmptyQueueStep DEF IInv
<1> QED BY <1>3, <1>4 DEF IInv

\* The event made of what poll reports for a descriptor is fresh, and its spawner
\* supports it unless it is one of a file that may be special.
LEMMA SpawnedEvent ==
    ASSUME TablesInv, NEW f \in Fd, NEW r \in Reported(f), r # {},
           mask[f] # {}, NEW e, e = SwitchEventSpawners(MostWantedPollEvent(r), f)
    PROVE  /\ e \in Event
           /\ e.own = "session" => sessions[e.fd] = e.ss /\ e.ss \in live
           /\ e.own = "file"    => files[e.fd] = e.ss
           /\ e.own = "cgi"     => cgiFds[e.fd] = e.ss
           /\ Supported(e) \/ (SpecialFiles /\ files[f] # Nil)
<1> DEFINE ev == MostWantedPollEvent(r)
<1>1. ev \in PollBit \union {"NONE"}
  BY DEF MostWantedPollEvent, PollBit
<1>2. \/ /\ f \in Listeners
         /\ e \in [own : {"listener", "none"}, ev : {ev}, fd : {f}, ss : {Nil}]
      \/ /\ f \notin Listeners /\ sessions[f] # Nil
         /\ e = [own |-> "session", ev |-> ev, fd |-> f, ss |-> sessions[f]]
      \/ /\ f \notin Listeners /\ sessions[f] = Nil /\ files[f] # Nil
         /\ e = [own |-> "file", ev |-> ev, fd |-> f, ss |-> files[f]]
      \/ /\ f \notin Listeners /\ sessions[f] = Nil /\ files[f] = Nil /\ cgiFds[f] # Nil
         /\ e = [own |-> "cgi", ev |-> ev, fd |-> f, ss |-> cgiFds[f]]
      \/ e = [own |-> "none", ev |-> ev, fd |-> f, ss |-> Nil]
  BY DEF SwitchEventSpawners
<1>3. sessions[f] # Nil => /\ kind[f] = "conn" /\ sessions[f] \in live
  BY DEF TablesInv, Tables, SessionsOK
<1>4. files[f] # Nil => kind[f] = "file"
  BY DEF TablesInv, Tables, FilesOK
<1>5. cgiFds[f] # Nil => kind[f] \in {"cgiIn", "cgiOut"}
  BY DEF TablesInv, Tables, CgiOK
<1>6. kind[f] = "conn" => ev # "NONE"
  <2> SUFFICES ASSUME kind[f] = "conn" PROVE ev # "NONE"
    OBVIOUS
  <2>1. r \subseteq {"READ", "WRITE", "ERROR", "CLOSE"}
    BY DEF Reported, Revents, When
  <2> QED BY <2>1 DEF MostWantedPollEvent
<1>7. kind[f] \in {"cgiIn", "cgiOut"} => ev # "NONE"
  <2> SUFFICES ASSUME kind[f] \in {"cgiIn", "cgiOut"} PROVE ev # "NONE"
    OBVIOUS
  <2>1. r \subseteq {"READ", "WRITE", "ERROR", "CLOSE"}
    BY DEF Reported, Revents, When
  <2> QED BY <2>1 DEF MostWantedPollEvent
<1>8. kind[f] = "file" /\ ~SpecialFiles => ev = "READ"
  <2> SUFFICES ASSUME kind[f] = "file", ~SpecialFiles PROVE ev = "READ"
    OBVIOUS
  <2>1. r \subseteq {"READ"}
    BY DEF Reported, Revents, When
  <2> QED BY <2>1 DEF MostWantedPollEvent
<1> HIDE DEF ev
<1>9. /\ sessions[f] \in Session \union {Nil} /\ files[f] \in Session \union {Nil}
      /\ cgiFds[f] \in Session \union {Nil}
  BY DEF TablesInv, Tables, Typed
<1>10. e \in Event
  BY <1>1, <1>2, <1>9 DEF Event, Owner
<1> QED BY <1>2, <1>3, <1>4, <1>5, <1>6, <1>7, <1>8, <1>10 DEF Supported

LEMMA PollStep ==
    ASSUME IInv, EvaluateIoEvents
    PROVE  IInv'
<1>1. evq = <<>> /\ UNCHANGED <<tableVars, heapVars, envVars>>
  BY DEF IInv, QueueOK, EvaluateIoEvents
<1>2. TablesInv'
  <2>1. TablesInv
    BY DEF IInv
  <2>2. UNCHANGED <<kind, mask, sessions, files, cgiFds, cgiPids, live, ctx, worker>>
    BY <1>1 DEF tableVars, heapVars, envVars
  <2> QED BY <2>1, <2>2 DEF TablesInv
<1>3. ASSUME NEW e \in Event, evq' = Append(evq, e), phase' = "drain", srv' = srv,
             e.own = "session" => sessions[e.fd] = e.ss /\ e.ss \in live,
             e.own = "file"    => files[e.fd] = e.ss,
             e.own = "cgi"     => cgiFds[e.fd] = e.ss
      PROVE  IInv'
  <2>1. evq' \in Seq(Event) /\ Len(evq') = 1 /\ evq'[1] = e /\ DOMAIN evq' = {1}
    BY <1>1, <1>3
  <2>2. QueuedEventFresh'
    BY <1>1, <1>3, <2>1 DEF QueuedEventFresh, tableVars, heapVars
  <2>3. LoopOK' /\ QueueOK'
    BY <1>3, <2>1, <2>2 DEF LoopOK, QueueOK
  <2>4. EnvOK'
    BY <1>1, <1>3 DEF IInv, EnvOK, EvaluateIoEvents, heapVars, envVars
  <2> QED BY <1>2, <2>3, <2>4 DEF IInv
<1>4. CASE \E f \in {g \in Fd : mask[g] # {}} : \E r \in Reported(f) \ {{}} :
            LET e == SwitchEventSpawners(MostWantedPollEvent(r), f) IN
            /\ IF Supported(e)
               THEN evq' = Append(evq, e) /\ phase' = "drain" /\ srv' = srv
               ELSE srv' = "unsupported" /\ UNCHANGED <<evq, phase>>
  <2>0. PICK f \in {g \in Fd : mask[g] # {}} : \E r \in Reported(f) \ {{}} :
            LET e == SwitchEventSpawners(MostWantedPollEvent(r), f) IN
            /\ IF Supported(e)
               THEN evq' = Append(evq, e) /\ phase' = "drain" /\ srv' = srv
               ELSE srv' = "unsupported" /\ UNCHANGED <<evq, phase>>
    BY <1>4
  <2>1. PICK r \in Reported(f) \ {{}} :
            LET e == SwitchEventSpawners(MostWantedPollEvent(r), f) IN
            /\ IF Supported(e)
               THEN evq' = Append(evq, e) /\ phase' = "drain" /\ srv' = srv
               ELSE srv' = "unsupported" /\ UNCHANGED <<evq, phase>>
    BY <2>0
  <2> DEFINE e == SwitchEventSpawners(MostWantedPollEvent(r), f)
  <2>2. /\ mask[f] # {} /\ r # {} /\ r \in Reported(f)
        /\ IF Supported(e)
           THEN evq' = Append(evq, e) /\ phase' = "drain" /\ srv' = srv
           ELSE srv' = "unsupported" /\ UNCHANGED <<evq, phase>>
    BY <2>1
  <2>3. e = SwitchEventSpawners(MostWantedPollEvent(r), f)
    OBVIOUS
  <2> HIDE DEF e
  <2>4. /\ e \in Event
        /\ e.own = "session" => sessions[e.fd] = e.ss /\ e.ss \in live
        /\ e.own = "file"    => files[e.fd] = e.ss
        /\ e.own = "cgi"     => cgiFds[e.fd] = e.ss
        /\ Supported(e) \/ (SpecialFiles /\ files[f] # Nil)
    BY <2>2, <2>3, SpawnedEvent DEF IInv
  <2>5. CASE Supported(e)
    BY <1>3, <2>2, <2>4, <2>5
  <2>6. CASE ~Supported(e)
    <3>1. srv' = "unsupported" /\ evq' = evq /\ phase' = phase
      BY <2>2, <2>6
    <3>2. Unsupported'
      BY <1>1, <2>2, <2>4, <2>6, <3>1 DEF Unsupported, tableVars
    <3>3. EnvOK'
      BY <1>1, <3>2 DEF IInv, EnvOK, heapVars, envVars
    <3>4. LoopOK' /\ QueueOK'
      BY <1>1, <3>1 DEF IInv, LoopOK, QueueOK
    <3> QED BY <1>2, <3>3, <3>4 DEF IInv
  <2> QED BY <2>5, <2>6
<1>5. CASE /\ evq' = Append(evq, [own |-> "none", ev |-> "NONE", fd |-> Nil, ss |-> Nil])
           /\ phase' = "drain" /\ srv' = srv
  <2> DEFINE e == [own |-> "none", ev |-> "NONE", fd |-> Nil, ss |-> Nil]
  <2>1. e \in Event /\ e.own = "none"
    BY DEF Event, Owner
  <2> HIDE DEF e
  <2>2. evq' = Append(evq, e)
    BY <1>5 DEF e
  <2> QED BY <1>3, <1>5, <2>1, <2>2
<1> QED BY <1>4, <1>5 DEF EvaluateIoEvents

LEMMA EnvironmentStep ==
    ASSUME IInv, Environment, ~Resume
    PROVE  IInv'
<1>0. srv = "up"
  BY DEF Environment
<1>1. UNCHANGED <<srv, phase, evq, kind, mask, sessions, files, cgiFds, cgiPids, live, ctx>>
  BY DEF Environment, Connect, Send, Shutdown, Reset, Lapse, WorkerWrite, WorkerExit,
         Others, tableVars, heapVars
<1>2. LoopOK' /\ QueueOK'
  <2>1. QueuedEventFresh => QueuedEventFresh'
    BY <1>1 DEF QueuedEventFresh
  <2> QED BY <1>1, <2>1 DEF IInv, LoopOK, QueueOK
<1>3. /\ worker' \in [Pid -> {"none", "run", "killed", "zombie"}]
      /\ \A p \in Pid : worker'[p] = "none" <=> worker[p] = "none"
  <2>1. worker \in [Pid -> {"none", "run", "killed", "zombie"}]
    BY DEF IInv, TablesInv, Tables, Typed
  <2>2. CASE UNCHANGED worker
    BY <2>1, <2>2
  <2>3. CASE \E p \in Pid : WorkerExit(p)
    BY <2>1, <2>3 DEF WorkerExit
  <2> QED BY <2>2, <2>3 DEF Environment, Connect, Send, Shutdown, Reset, Lapse, WorkerWrite
<1>4. TablesInv'
  <2>1. Tables(kind, mask, sessions, files, cgiFds, cgiPids, live, ctx, worker)
    BY DEF IInv, TablesInv
  <2>2. cgiPids \in [Pid -> Entry \union {Nil}]
    BY DEF IInv, TablesInv, Tables, Typed
  <2>3. Tables(kind, mask, sessions, files, cgiFds, cgiPids, live, ctx, worker')
    BY <1>3, <2>1, <2>2, ChangeWorkers
  <2> QED BY <1>1, <2>3 DEF TablesInv
<1>5. EnvOK'
  <2>0. EnvOK /\ srv = "up" /\ \A s \in live : ctx[s].conn \in Fd
    BY <1>0, Unfolded DEF IInv
  <2>1. CASE Connect
    <3>1. backlog \in Nat
      BY <2>0 DEF EnvOK
    <3>2. backlog' \in Nat
      BY <2>1, <3>1 DEF Connect
    <3> QED BY <1>1, <2>0, <2>1, <3>2 DEF Connect, EnvOK
  <2>2. CASE \E s \in live : Send(s)
    <3>1. PICK s \in live : Send(s)
      BY <2>2
    <3> DEFINE f == ctx[s].conn
               more == inbox[f] + 1
    <3>2. more \in Nat
      <4>1. inbox[f] \in Nat
        BY <2>0 DEF EnvOK
      <4> QED BY <4>1
    <3>3. inbox' = [inbox EXCEPT ![f] = more]
      BY <3>1 DEF Send
    <3> HIDE DEF f, more
    <3>4. inbox' \in [Fd -> Nat]
      BY <2>0, <3>2, <3>3 DEF EnvOK
    <3> QED BY <1>1, <2>0, <3>1, <3>4 DEF Send, EnvOK
  <2>3. CASE \E s \in live : Shutdown(s) \/ Reset(s)
    <3>1. PICK s \in live : Shutdown(s) \/ Reset(s)
      BY <2>3
    <3>2. peer' \in [Fd -> {"open", "shut", "reset"}]
      BY <2>0, <3>1 DEF Shutdown, Reset, EnvOK
    <3> QED BY <1>1, <2>0, <3>1, <3>2 DEF Shutdown, Reset, EnvOK
  <2>4. CASE \E s \in live : Lapse(s)
    BY <1>1, <2>0, <2>4 DEF Lapse, EnvOK
  <2>5. CASE \E p \in Pid : WorkerWrite(p)
    <3>1. PICK p \in Pid : WorkerWrite(p)
      BY <2>5
    <3> DEFINE more == pipe[p] + 1
    <3>2. more \in Nat
      <4>1. pipe[p] \in Nat
        BY <2>0 DEF EnvOK
      <4> QED BY <4>1
    <3>3. pipe' = [pipe EXCEPT ![p] = more]
      BY <3>1 DEF WorkerWrite
    <3> HIDE DEF more
    <3>4. pipe' \in [Pid -> Nat]
      BY <2>0, <3>2, <3>3 DEF EnvOK
    <3> QED BY <1>1, <2>0, <3>1, <3>4 DEF WorkerWrite, EnvOK
  <2>6. CASE \E p \in Pid : WorkerExit(p)
    BY <1>1, <2>0, <2>6 DEF WorkerExit, EnvOK
  <2> QED BY <2>1, <2>2, <2>3, <2>4, <2>5, <2>6 DEF Environment
<1> QED BY <1>2, <1>4, <1>5 DEF IInv

LEMMA StutterStep ==
    ASSUME IInv, UNCHANGED vars
    PROVE  IInv'
<1>1. UNCHANGED <<srv, phase, evq, kind, mask, sessions, files, cgiFds, cgiPids,
                  live, ctx, backlog, inbox, peer, expired, worker, pipe>>
  BY DEF vars, loopVars, tableVars, heapVars, envVars
<1>2. TablesInv' /\ EnvOK' /\ LoopOK'
  BY <1>1 DEF IInv, TablesInv, EnvOK, Unsupported, LoopOK
<1>3. QueuedEventFresh => QueuedEventFresh'
  BY <1>1 DEF QueuedEventFresh
<1>4. QueueOK'
  BY <1>1, <1>3 DEF IInv, QueueOK
<1> QED BY <1>2, <1>4 DEF IInv

LEMMA InitOK == Init => IInv
<1> SUFFICES ASSUME Init PROVE IInv
  OBVIOUS
<1>1. Typed(kind, mask, sessions, files, cgiFds, cgiPids, live, ctx, worker)
  <2>1. NoContext \in Context
    BY DEF NoContext, Context
  <2>2. ctx \in [Session -> Context]
    BY <2>1 DEF Init
  <2>3. kind \in [Fd -> Kind] /\ mask \in [Fd -> SUBSET PollBit]
    BY DEF Init, Kind, PollBit
  <2> QED BY <2>2, <2>3 DEF Init, Typed
<1>2. ListenersOK(kind, mask) /\ PolledOK(mask, sessions, files, cgiFds)
  BY FdAssumption DEF Init, ListenersOK, PolledOK
<1>3. /\ SessionsOK(kind, mask, sessions, live, ctx)
      /\ FilesOK(kind, mask, files, live, ctx) /\ ArmedOK(mask, live, ctx)
  BY DEF Init, SessionsOK, FilesOK, ArmedOK
<1>4. CgiOK(kind, cgiFds, cgiPids, ctx, worker)
  BY NilAssumption DEF Init, CgiOK, NoContext
<1>5. TablesInv
  BY <1>1, <1>2, <1>3, <1>4 DEF TablesInv, Tables
<1>6. EnvOK
  BY DEF Init, EnvOK
<1>7. LoopOK /\ QueueOK
  BY DEF Init, LoopOK, QueueOK
<1> QED BY <1>5, <1>6, <1>7 DEF IInv

LEMMA NextOK == IInv /\ [Next]_vars => IInv'
<1> SUFFICES ASSUME IInv, [Next]_vars PROVE IInv'
  OBVIOUS
<1>1. CASE Handle
  BY <1>1, HandleStep DEF Handle
<1>2. CASE EvaluateCgiWorkers
  BY <1>2, ReapStep
<1>3. CASE EvaluateIoTimeouts
  BY <1>3, TimeoutStep
<1>4. CASE EvaluateIoEvents
  BY <1>4, PollStep
<1>5. CASE Environment
  <2>1. CASE Resume
    BY <1>5, <2>1, HandleStep DEF Environment, Resume
  <2> QED BY <1>5, <2>1, EnvironmentStep
<1>6. CASE Stopped \/ UNCHANGED vars
  BY <1>6, StutterStep DEF Stopped
<1>7. CASE Block
  BY <1>7, BlockStep
<1> QED BY <1>1, <1>2, <1>3, <1>4, <1>5, <1>6, <1>7 DEF Next, Loop

-----------------------------------------------------------------------------
(* The theorems *)

\* The tables of the server, the poller and the descriptors agree in every
\* reachable state.
THEOREM Consistent == Spec => []IInv
  BY InitOK, NextOK, PTL DEF Spec

\* Every variable keeps its type: no handler of webserver_*.cc leaves a
\* negative count of responses, a poll mask or a map entry outside its domain, and
\* no hook queues a second event.
THEOREM TypeCorrect == Spec => []TypeOK
<1>1. IInv => TypeOK
  <2> SUFFICES ASSUME IInv PROVE TypeOK
    OBVIOUS
  <2>1. evq \in Seq(Event) /\ Len(evq) <= 1
    <3>1. evq \in Seq(Event) /\ (evq = <<>> \/ Len(evq) = 1)
      BY DEF IInv, LoopOK, QueueOK
    <3>2. Len(evq) = 0 \/ Len(evq) = 1
      BY <3>1
    <3>3. Len(evq) <= 1
      BY <3>2, AtMostOne
    <3> QED BY <3>1, <3>3
  <2>2. /\ srv \in {"up", "unsupported", "write failed", "undefined"}
        /\ phase \in {"drain", "blocked", "timeout", "poll"}
    BY DEF IInv, EnvOK, Unsupported, LoopOK
  <2>3. live \in SUBSET Session /\ expired \in SUBSET Session
    BY DEF IInv, TablesInv, Tables, Typed, EnvOK
  <2> QED BY <2>1, <2>2, <2>3 DEF IInv, TablesInv, Tables, Typed, EnvOK, TypeOK
<1> QED BY <1>1, Consistent, PTL

\* A polled descriptor is in exactly the map that serves it and is watched as
\* that map needs, whatever the order of hang-ups, errors and responses.
THEOREM PollerCorrect == Spec => []PollerMatchesTables
<1>1. IInv => PollerMatchesTables
  BY DEF IInv, TablesInv, Tables, ListenersOK, SessionsOK, FilesOK, CgiOK, PolledOK,
         PollerMatchesTables
<1> QED BY <1>1, Consistent, PTL

\* __sessions_map holds the allocated sessions, each under its own descriptor.
THEOREM SessionsCorrect == Spec => []SessionTableExact
<1>1. IInv => SessionTableExact
  BY DEF IInv, TablesInv, Tables, SessionsOK, SessionTableExact
<1> QED BY <1>1, Consistent, PTL

\* The queued event is still served by the session it was made for: the hooks
\* run in an order in which nothing is freed between poll and Handle.
THEOREM QueueCorrect == Spec => []QueuedEventFresh
<1>1. IInv => QueuedEventFresh
  BY DEF IInv, QueueOK, QueuedEventFresh
<1> QED BY <1>1, Consistent, PTL

\* A session with a response to send is watched for writing.
THEOREM ResponsesArmed == Spec => []WriteArmed
<1>1. IInv => WriteArmed
  BY DEF IInv, TablesInv, Tables, ArmedOK, WriteArmed
<1> QED BY <1>1, Consistent, PTL

\* The CGI maps hold the children not reaped yet and the ends of their pipes.
THEOREM WorkersCorrect == Spec => []CgiTableExact
<1>1. IInv => CgiTableExact
  BY DEF IInv, TablesInv, Tables, CgiOK, CgiTableExact
<1> QED BY <1>1, Consistent, PTL

\* No poll result of a listener, a connection or a worker makes an event spawner
\* throw: one that does is that of a special file being sent.
THEOREM SpawnersTotal == Spec => []OnlyFilesUnsupported
<1>1. IInv => OnlyFilesUnsupported
  BY DEF IInv, EnvOK, Unsupported, OnlyFilesUnsupported
<1> QED BY <1>1, Consistent, PTL

-----------------------------------------------------------------------------
(* Clients that wait for each response, and requests that start no CGI      *)
(* worker: every request gets one response, no open file is lost, the       *)
(* server touches nothing that was freed, and each connection is served as  *)
(* ConnectionService promises.  The new invariant counts: what is in flight *)
(* on a connection, a request received, owed or buffered, is one thing at   *)
(* most.                                                                    *)

WaitingClients == /\ ~Pipelining
                  /\ \A q \in Requests : OnHttpRequest(q.scenario).do # "cgi"

Balanced(c) == c.owed = IF c.closed THEN 0 ELSE 1

Counted == \A s \in live : /\ Balanced(ctx[s])
                           /\ inbox[ctx[s].conn] + ctx[s].owed + ctx[s].buf <= 1

FilesOf(k, fl, lv, cx) ==
    \A f \in Fd : k[f] = "file" => /\ fl[f] \in lv
                                   /\ cx[fl[f]].file = f /\ ~cx[fl[f]].closed

Unconnected == \A f \in Fd : sessions[f] = Nil => inbox[f] = 0

NoCgi == \A f \in Fd : cgiFds[f] = Nil

\* A message may be begun while a response is owed or buffered only by a read
\* that failed; the connection is reported as an error from then on.
BegunOK == \A s \in live :
    ctx[s].part /\ ctx[s].owed + ctx[s].buf >= 1 =>
        /\ peer[ctx[s].conn] = "reset"
        /\ evq # <<>> => ~(evq[1].own = "session" /\ evq[1].ss = s
                            /\ evq[1].ev \in {"READ", "WRITE"})

OwnersOK == evq # <<>> => /\ evq[1].own # "cgi"
                          /\ evq[1].own = "file" =>
                                 evq[1].fd \in Fd /\ files[evq[1].fd] # Nil

WInv == /\ Counted /\ FilesOf(kind, files, live, ctx) /\ Unconnected /\ NoCgi
        /\ BegunOK /\ OwnersOK /\ NoUndefined

ServiceStep == [Service!Next]_ServiceState

-----------------------------------------------------------------------------
(* What the handlers find *)

\* The part of the invariant of HttpServerProofs that is needed here.
LEMMA Found ==
    ASSUME IInv
    PROVE  /\ ctx \in [Session -> Context] /\ live \subseteq Session
           /\ kind \in [Fd -> Kind] /\ files \in [Fd -> Session \union {Nil}]
           /\ sessions \in [Fd -> Session \union {Nil}]
           /\ inbox \in [Fd -> Nat] /\ peer \in [Fd -> {"open", "shut", "reset"}]
           /\ expired \subseteq live
           /\ \A s \in live : /\ ctx[s] \in Context /\ ctx[s].conn \in Fd
                              /\ sessions[ctx[s].conn] = s
                              /\ kind[ctx[s].conn] = "conn"
           /\ \A f \in Fd : files[f] # Nil => kind[f] = "file"
           /\ \A f \in Fd : sessions[f] # Nil =>
                  sessions[f] \in live /\ ctx[sessions[f]].conn = f
  BY DEF IInv, TablesInv, Tables, Typed, SessionsOK, FilesOK, EnvOK

\* A session's counts: with nothing in flight its file is closed.
LEMMA Counts ==
    ASSUME IInv, WInv, NEW s \in live
    PROVE  /\ inbox[ctx[s].conn] \in Nat /\ ctx[s].buf \in Nat
           /\ ctx[s].owed \in {0, 1} /\ ctx[s].closed \in BOOLEAN
           /\ ctx[s].closed <=> ctx[s].owed = 0
           /\ inbox[ctx[s].conn] + ctx[s].owed + ctx[s].buf <= 1
<1>1. ctx[s] \in Context /\ ctx[s].conn \in Fd /\ inbox \in [Fd -> Nat]
  BY Found
<1>2. /\ ctx[s].owed = IF ctx[s].closed THEN 0 ELSE 1
      /\ inbox[ctx[s].conn] + ctx[s].owed + ctx[s].buf <= 1
  BY DEF WInv, Counted, Balanced
<1>3. ctx[s].buf \in Nat /\ ctx[s].closed \in BOOLEAN
  BY <1>1 DEF Context
<1> QED BY <1>1, <1>2, <1>3

\* A queued event of a session or of a file is one of a live session; that of
\* a file finds the session's open file.
LEMMA Owned ==
    ASSUME IInv, WInv, evq # <<>>
    PROVE  /\ evq[1].own # "cgi"
           /\ evq[1].own = "session" => evq[1].ss \in live
           /\ evq[1].own = "file" => /\ evq[1].ss \in live
                                     /\ ~ctx[evq[1].ss].closed
                                     /\ ctx[evq[1].ss].file \in Fd
                                     /\ kind[ctx[evq[1].ss].file] = "file"
                                     /\ files[ctx[evq[1].ss].file] = evq[1].ss
<1>1. Len(evq) = 1 /\ QueuedEventFresh /\ evq \in Seq(Event)
  BY DEF IInv, QueueOK, LoopOK
<1>2. 1 \in DOMAIN evq /\ evq[1] \in Event
  BY <1>1
<1>3. /\ evq[1].own = "session" => evq[1].ss \in live
      /\ evq[1].own = "file" => files[evq[1].fd] = evq[1].ss
  BY <1>1, <1>2 DEF QueuedEventFresh
<1>4. ASSUME evq[1].own = "file"
      PROVE  /\ evq[1].ss \in live /\ ~ctx[evq[1].ss].closed
             /\ ctx[evq[1].ss].file \in Fd /\ kind[ctx[evq[1].ss].file] = "file"
             /\ files[ctx[evq[1].ss].file] = evq[1].ss
  <2> DEFINE g == evq[1].fd
  <2>1. files[g] # Nil /\ files[g] = evq[1].ss
    BY <1>3, <1>4 DEF WInv, OwnersOK
  <2>2. g \in Fd
    BY <1>4 DEF WInv, OwnersOK
  <2>3. kind[g] = "file"
    BY <2>1, <2>2, Found
  <2> QED BY <2>1, <2>2, <2>3 DEF WInv, FilesOf
<1> QED BY <1>3, <1>4 DEF WInv, OwnersOK

-----------------------------------------------------------------------------
(* What the steps leave *)

\* n messages of the connection are not read yet.
Word(c, n) == IF c.owed > 0 THEN "busy" ELSE IF c.buf > 0 THEN "answering"
              ELSE IF n > 0 \/ c.part THEN "asked" ELSE "idle"

WordOf(s) == Word(ctx[s], inbox[ctx[s].conn])

LEMMA ServiceIs ==
    ASSUME live \subseteq Session
    PROVE  /\ ServiceState = [s \in Session |-> IF s \in live THEN WordOf(s) ELSE "none"]
           /\ ServiceState' = [s \in Session |-> IF s \in live' THEN WordOf(s)' ELSE "none"]
  BY DEF ServiceState, Word, WordOf

\* Steps that change no session's counts.
LEMMA SameService ==
    ASSUME IInv, live' = live, ctx' \in [Session -> Context],
           \A s \in live : /\ ctx'[s].owed = ctx[s].owed /\ ctx'[s].buf = ctx[s].buf
                           /\ ctx'[s].part = ctx[s].part
                           /\ inbox'[ctx'[s].conn] = inbox[ctx[s].conn]
    PROVE  ServiceStep
<1>1. ServiceState' = ServiceState
  BY Found, ServiceIs DEF Word, WordOf
<1> QED BY <1>1 DEF ServiceStep

\* A handler changes one session's counts the way ConnectionService allows.
LEMMA OneService ==
    ASSUME IInv, live' = live, NEW s \in live, NEW d, ctx' = [ctx EXCEPT ![s] = d],
           d.conn = ctx[s].conn, \A f \in Fd : f # ctx[s].conn => inbox'[f] = inbox[f],
           NEW word, word = Word(d, inbox'[d.conn]),
           \/ word = WordOf(s)
           \/ WordOf(s) = "idle" /\ word = "asked"
           \/ WordOf(s) = "asked" /\ word \in {"busy", "answering"}
           \/ WordOf(s) = "busy" /\ word = "answering"
           \/ WordOf(s) = "answering" /\ word = "idle"
    PROVE  ServiceStep
<1>1. s \in Session /\ ctx'[s] = d /\ \A t \in live : t # s => ctx'[t] = ctx[t]
  BY Found
<1>2. ServiceState[s] = WordOf(s)
  BY <1>1, Found, ServiceIs
<1>3. ServiceState' = [ServiceState EXCEPT ![s] = word]
  <2>1. \A t \in live : t # s => WordOf(t)' = WordOf(t)
    BY <1>1, Found DEF WordOf
  <2>2. WordOf(s)' = word
    BY <1>1 DEF WordOf
  <2> QED BY <1>1, <2>1, <2>2, Found, ServiceIs
<1>4. CASE word = WordOf(s)
  <2>1. ServiceState' = ServiceState
    BY <1>2, <1>3, <1>4, ServiceIs, Found
  <2> QED BY <2>1 DEF ServiceStep
<1>5. CASE \/ WordOf(s) = "idle" /\ word = "asked"
           \/ WordOf(s) = "asked" /\ word \in {"busy", "answering"}
           \/ WordOf(s) = "busy" /\ word = "answering"
           \/ WordOf(s) = "answering" /\ word = "idle"
  <2>1. Service!Ask(s) \/ Service!Take(s) \/ Service!Reply(s) \/ Service!Sent(s)
    BY <1>2, <1>3, <1>5 DEF Service!Ask, Service!Take, Service!Reply, Service!Sent, Service!To
  <2> QED BY <1>1, <2>1 DEF ServiceStep, Service!Next
<1> QED BY <1>4, <1>5

\* A step of one session keeps the invariant when its counts add up and the
\* files are those of the live sessions.
LEMMA Kept ==
    ASSUME IInv, WInv, NEW s \in live, NEW d, ctx' = [ctx EXCEPT ![s] = d],
           d.conn = ctx[s].conn, Balanced(d),
           inbox'[ctx[s].conn] + d.owed + d.buf <= 1,
           d.part /\ d.owed + d.buf >= 1 => peer[ctx[s].conn] = "reset",
           \A f \in Fd : f # ctx[s].conn => inbox'[f] = inbox[f],
           FilesOf(kind', files', live, ctx'),
           live' = live, sessions' = sessions, peer' = peer, cgiFds' = cgiFds,
           evq' = <<>>, srv' # "undefined"
    PROVE  WInv'
<1>1. ctx'[s] = d /\ \A t \in live : t # s => ctx'[t] = ctx[t]
  BY Found
<1>2. \A t \in live : t # s => ctx[t].conn # ctx[s].conn /\ ctx[t].conn \in Fd
  BY Found
<1>3. Counted'
  <2> SUFFICES ASSUME NEW t \in live
               PROVE  /\ Balanced(ctx'[t])
                      /\ inbox'[ctx'[t].conn] + ctx'[t].owed + ctx'[t].buf <= 1
    BY DEF Counted, Balanced
  <2>1. CASE t = s
    BY <1>1, <2>1
  <2>2. CASE t # s
    BY <1>1, <1>2, <2>2 DEF WInv, Counted
  <2> QED BY <2>1, <2>2
<1>4. Unconnected'
  BY <1>1, Found, NilAssumption DEF WInv, Unconnected
<1>5. NoCgi'
  BY DEF WInv, NoCgi
<1>6. BegunOK'
  <2> SUFFICES ASSUME NEW t \in live, ctx'[t].part, ctx'[t].owed + ctx'[t].buf >= 1
               PROVE  peer[ctx'[t].conn] = "reset"
    BY DEF BegunOK
  <2>1. CASE t = s
    BY <1>1, <2>1
  <2>2. CASE t # s
    BY <1>1, <2>2 DEF WInv, BegunOK
  <2> QED BY <2>1, <2>2
<1>7. OwnersOK' /\ NoUndefined'
  BY DEF OwnersOK, NoUndefined
<1>8. FilesOf(kind, files, live, ctx)'
  BY DEF FilesOf
<1> QED BY <1>3, <1>4, <1>5, <1>6, <1>7, <1>8 DEF WInv

LEMMA Serving ==
    ASSUME NEW d \in Context, Balanced(d), d.owed + d.buf = 1, NEW n \in Nat
    PROVE  Word(d, n) \in {"busy", "answering"}
  BY DEF Context, Balanced, Word

\* A response to the request a session owes, or the file that will be one.
LEMMA Answered ==
    ASSUME IInv, NEW s \in live, NEW c \in Context, NEW k, NEW m, NEW fl,
           k \in [Fd -> Kind], fl \in [Fd -> Session \union {Nil}],
           c.owed = 1, c.buf = 0, c.closed,
           FilesOf(k, fl, live \ {s}, ctx),
           OnHttpResponse(s, c, k, m, fl) \/ SendStaticFileResponse(s, c, k, m, fl)
    PROVE  \E d \in Context :
              /\ ctx' = [ctx EXCEPT ![s] = d]
              /\ d.conn = c.conn /\ d.part = c.part /\ Balanced(d)
              /\ d.owed + d.buf = 1
              /\ FilesOf(kind', files', live, ctx')
<1>0. ctx \in [Session -> Context] /\ live \subseteq Session /\ s \in Session /\ s # Nil
  BY Found, NilAssumption
<1>1. CASE OnHttpResponse(s, c, k, m, fl)
  <2> DEFINE close == c.close \/ c.v10
             buf   == c.buf + 1
             owed  == c.owed - 1
             d == [c EXCEPT !.close = close, !.buf = buf, !.owed = owed]
  <2>0. buf = 1 /\ owed = 0
    OBVIOUS
  <2>1. ctx' = [ctx EXCEPT ![s] = d] /\ kind' = k /\ files' = fl
    BY <1>1 DEF OnHttpResponse
  <2> HIDE DEF buf, owed
  <2>2. /\ d \in Context /\ d.conn = c.conn /\ d.part = c.part
        /\ d.owed = 0 /\ d.buf = 1 /\ d.closed = c.closed
    <3>1. close \in BOOLEAN
      OBVIOUS
    <3>2. d = [c EXCEPT !.close = close, !.buf = buf, !.owed = owed]
      OBVIOUS
    <3>3. buf \in Nat /\ owed \in Int
      BY <2>0
    <3> HIDE DEF close, d
    <3>4. /\ d \in Context /\ d.conn = c.conn /\ d.part = c.part
          /\ d.owed = owed /\ d.buf = buf /\ d.closed = c.closed
      BY <3>1, <3>2, <3>3 DEF Context
    <3> QED BY <2>0, <3>4
  <2> HIDE DEF d
  <2>3. \A t \in live \ {s} : ctx'[t] = ctx[t]
    BY <1>0, <2>1
  <2>4. FilesOf(kind', files', live, ctx')
    BY <2>1, <2>3 DEF FilesOf
  <2>5. Balanced(d) /\ d.owed + d.buf = 1
    BY <2>2 DEF Balanced
  <2> QED BY <2>1, <2>2, <2>4, <2>5
<1>2. CASE SendStaticFileResponse(s, c, k, m, fl)
  <2>1. PICK g \in Fd : /\ ctx' = [ctx EXCEPT ![s] = [c EXCEPT !.file = g, !.closed = FALSE]]
                        /\ files' = [fl EXCEPT ![g] = s] /\ kind' = [k EXCEPT ![g] = "file"]
    BY <1>2 DEF SendStaticFileResponse
  <2> DEFINE d == [c EXCEPT !.file = g, !.closed = FALSE]
  <2>2. /\ d \in Context /\ d.conn = c.conn /\ d.part = c.part
        /\ d.owed = 1 /\ d.buf = 0 /\ ~d.closed /\ d.file = g
    BY DEF Context
  <2>3. ctx' = [ctx EXCEPT ![s] = d]
    BY <2>1
  <2> HIDE DEF d
  <2>4. ctx'[s] = d /\ \A t \in live \ {s} : ctx'[t] = ctx[t]
    BY <1>0, <2>3
  <2>5. \A f \in Fd : /\ files'[f] = IF f = g THEN s ELSE fl[f]
                      /\ kind'[f] = IF f = g THEN "file" ELSE k[f]
    BY <2>1
  <2>6. FilesOf(kind', files', live, ctx')
    BY <2>2, <2>4, <2>5 DEF FilesOf
  <2>7. Balanced(d) /\ d.owed + d.buf = 1
    BY <2>2 DEF Balanced
  <2> QED BY <2>2, <2>3, <2>6, <2>7
<1> QED BY <1>1, <1>2

LEMMA DeleteKept ==
    ASSUME IInv, WInv, NEW S \in SUBSET live, DeleteSessionCtx(S), srv' = srv, evq' = <<>>
    PROVE  WInv' /\ ServiceStep
<1> DEFINE G == {ctx[s].conn : s \in S}
           F == OpenFiles(S)
<1>0. /\ ctx \in [Session -> Context] /\ live \subseteq Session
      /\ kind \in [Fd -> Kind] /\ files \in [Fd -> Session \union {Nil}]
      /\ sessions \in [Fd -> Session \union {Nil}]
      /\ inbox \in [Fd -> Nat] /\ peer \in [Fd -> {"open", "shut", "reset"}]
  BY Found
<1>1. /\ live' = live \ S /\ cgiFds' = cgiFds
      /\ \A t \in Session : ctx'[t] = IF t \in S THEN NoContext ELSE ctx[t]
      /\ \A f \in Fd : /\ kind'[f] = IF f \in G \union F THEN "free" ELSE kind[f]
                       /\ sessions'[f] = IF f \in G THEN Nil ELSE sessions[f]
                       /\ files'[f] = IF f \in F THEN Nil ELSE files[f]
                       /\ inbox'[f] = IF f \in G THEN 0 ELSE inbox[f]
                       /\ peer'[f] = IF f \in G THEN "open" ELSE peer[f]
  <2> HIDE DEF G, F
  <2>1. /\ kind' = Put(kind, G \union F, "free")
        /\ sessions' = Put(sessions, G, Nil) /\ files' = Put(files, F, Nil)
        /\ live' = live \ S /\ ctx' = Put(ctx, S, NoContext)
        /\ inbox' = Put(inbox, G, 0) /\ peer' = Put(peer, G, "open") /\ cgiFds' = cgiFds
    BY DEF DeleteSessionCtx, G, F
  <2> QED BY <1>0, <2>1 DEF Put
<1>2. \A t \in live \ S : /\ ctx'[t] = ctx[t] /\ ctx[t].conn \in Fd
                          /\ ctx[t].conn \notin G
  BY <1>0, <1>1, Found
<1>3. \A s \in S : ~ctx[s].closed => ctx[s].file \in F
  BY DEF OpenFiles
<1> HIDE DEF G, F
<1>4. Counted'
  BY <1>1, <1>2 DEF WInv, Counted
<1>5. FilesOf(kind, files, live, ctx)'
  BY <1>1, <1>2, <1>3 DEF WInv, FilesOf
<1>6. Unconnected' /\ NoCgi'
  BY <1>1 DEF WInv, Unconnected, NoCgi
<1>7. BegunOK'
  BY <1>1, <1>2 DEF WInv, BegunOK
<1>8. OwnersOK' /\ NoUndefined'
  BY DEF WInv, OwnersOK, NoUndefined
<1>9. ServiceStep
  <2>0. \A t \in live \ S : WordOf(t)' = WordOf(t)
    BY <1>1, <1>2 DEF WordOf
  <2>1. ServiceState' = [s \in Session |-> IF s \in S THEN "none" ELSE ServiceState[s]]
    BY <1>0, <1>1, <2>0, ServiceIs
  <2>2. Service!Close(S) /\ S \in SUBSET Session
    BY <1>0, <2>1 DEF Service!Close
  <2> QED BY <2>2 DEF ServiceStep, Service!Next
<1> QED BY <1>4, <1>5, <1>6, <1>7, <1>8, <1>9 DEF WInv

\* A request is taken only when nothing else is in flight.
LEMMA ReadKept ==
    ASSUME IInv, WInv, WaitingClients, NEW s \in live, evq # <<>>,
           evq[1].own = "session", evq[1].ss = s, evq[1].ev = "READ",
           OnSessionRead(s), evq' = <<>>
    PROVE  WInv' /\ ServiceStep
<1> DEFINE f == ctx[s].conn
           c == [ctx[s] EXCEPT !.server = FALSE, !.cgi = Nil, !.part = TRUE]
           got == [c EXCEPT !.owed = @ + 1, !.part = FALSE]
<1>0. /\ ctx \in [Session -> Context] /\ live \subseteq Session /\ f \in Fd
      /\ ctx[s] \in Context /\ inbox \in [Fd -> Nat]
      /\ kind \in [Fd -> Kind] /\ files \in [Fd -> Session \union {Nil}]
  BY Found
<1>1. /\ inbox[f] \in Nat /\ ctx[s].buf \in Nat /\ ctx[s].owed \in {0, 1}
      /\ ctx[s].closed \in BOOLEAN /\ ctx[s].closed <=> ctx[s].owed = 0
      /\ inbox[f] + ctx[s].owed + ctx[s].buf <= 1
  BY Counts
<1>2. /\ c \in Context /\ c.conn = f /\ c.file = ctx[s].file /\ c.closed = ctx[s].closed
      /\ c.buf = ctx[s].buf /\ c.owed = ctx[s].owed /\ c.part = TRUE
  BY <1>0 DEF Context
<1>3. CASE DeleteSessionCtx({s}) /\ srv' = srv
  BY <1>3, DeleteKept
<1>4. CASE /\ \/ \E n \in 1..inbox[f] : inbox' = [inbox EXCEPT ![f] = @ - n]
              \/ inbox[f] = 0 /\ peer[f] = "reset" /\ inbox' = inbox
           /\ expired' = expired \ {s}
           /\ \/ /\ ctx' = [ctx EXCEPT ![s] = c]
                 /\ UNCHANGED <<kind, mask, files, cgiFds, cgiPids, worker, pipe>>
              \/ /\ inbox[f] > 0 \/ ctx[s].part
                 /\ \/ /\ OnHttpError(s, got, kind, mask, files, FALSE)
                       /\ UNCHANGED <<cgiFds, cgiPids, worker, pipe>>
                    \/ \E q \in Requests : HandleRequest(s, got, q)
           /\ UNCHANGED <<srv, sessions, live, backlog, peer>>
  <2>1. /\ inbox'[f] = 0 /\ \A g \in Fd : g # f => inbox'[g] = inbox[g]
        /\ \/ ctx[s].owed = 0 /\ ctx[s].buf = 0
           \/ peer[f] = "reset" /\ inbox[f] = 0
    <3>1. CASE inbox[f] = 0 /\ peer[f] = "reset" /\ inbox' = inbox
      BY <1>0, <3>1
    <3>2. CASE \E n \in 1..inbox[f] : inbox' = [inbox EXCEPT ![f] = @ - n]
      <4>1. PICK n \in 1..inbox[f] : inbox' = [inbox EXCEPT ![f] = @ - n]
        BY <3>2
      <4>2. inbox[f] = 1 /\ n = 1 /\ ctx[s].owed = 0 /\ ctx[s].buf = 0
        BY <1>1
      <4>3. inbox[f] - n = 0
        BY <4>2
      <4>4. inbox'[f] = inbox[f] - n
        BY <1>0, <4>1
      <4>5. \A g \in Fd : g # f => inbox'[g] = inbox[g]
        BY <1>0, <4>1
      <4> QED BY <4>2, <4>3, <4>4, <4>5
    <3> QED BY <1>4, <3>1, <3>2
  <2> HIDE DEF c
  <2>2. CASE /\ ctx' = [ctx EXCEPT ![s] = c]
             /\ UNCHANGED <<kind, mask, files, cgiFds, cgiPids, worker, pipe>>
    <3>1. ctx'[s] = c /\ \A t \in live : t # s => ctx'[t] = ctx[t]
      BY <1>0, <2>2
    <3>2. FilesOf(kind', files', live, ctx')
      BY <1>2, <2>2, <3>1 DEF WInv, FilesOf
    <3>3. Balanced(c)
      BY <1>2 DEF Balanced, WInv, Counted
    <3>4. /\ c.owed + c.buf <= 1 /\ inbox'[f] + c.owed + c.buf <= 1
          /\ c.part /\ c.owed + c.buf >= 1 => peer[f] = "reset"
      BY <1>1, <1>2, <2>1
    <3>5. WInv'
      BY <1>2, <1>4, <2>1, <2>2, <3>2, <3>3, <3>4, Kept DEF WInv, NoUndefined
    <3>6. \/ Word(c, 0) = WordOf(s)
          \/ WordOf(s) = "idle" /\ Word(c, 0) = "asked"
      BY <1>0, <1>1, <1>2 DEF Word, WordOf, Context
    <3>7. /\ live' = live /\ c.conn = ctx[s].conn /\ inbox'[c.conn] = 0
          /\ \A g \in Fd : g # ctx[s].conn => inbox'[g] = inbox[g]
      BY <1>2, <1>4, <2>1
    <3>8. ServiceStep
      BY <2>2, <3>6, <3>7, OneService
    <3> QED BY <3>5, <3>8
  <2>3. CASE /\ inbox[f] > 0 \/ ctx[s].part
             /\ \/ /\ OnHttpError(s, got, kind, mask, files, FALSE)
                   /\ UNCHANGED <<cgiFds, cgiPids, worker, pipe>>
                \/ \E q \in Requests : HandleRequest(s, got, q)
    <3>1. ctx[s].owed = 0 /\ ctx[s].buf = 0 /\ ctx[s].closed
      <4>1. ctx[s].part => ctx[s].owed + ctx[s].buf < 1
        BY <1>1 DEF WInv, BegunOK
      <4> QED BY <1>1, <2>1, <2>3, <4>1
    <3>2. /\ got \in Context /\ got.conn = f /\ got.owed = 1 /\ got.buf = 0
          /\ got.closed = ctx[s].closed /\ got.part = FALSE
      <4> DEFINE owed == c.owed + 1
      <4>1. owed = 1 /\ got = [c EXCEPT !.owed = owed, !.part = FALSE]
        BY <1>2, <3>1
      <4>2. c \in Context /\ owed \in Int
        BY <1>2, <4>1
      <4> HIDE DEF owed, got
      <4>3. /\ got \in Context /\ got.conn = c.conn /\ got.owed = owed /\ got.buf = c.buf
            /\ got.closed = c.closed /\ got.part = FALSE
        BY <4>1, <4>2 DEF Context
      <4> QED BY <1>2, <3>1, <4>1, <4>3
    <3>3. FilesOf(kind, files, live \ {s}, ctx)
      BY <3>1 DEF WInv, FilesOf
    <3>4. /\ \E e \in Context, k \in [Fd -> Kind] :
                /\ e.conn = f /\ e.owed = 1 /\ e.buf = 0 /\ e.closed /\ e.part = FALSE
                /\ FilesOf(k, files, live \ {s}, ctx)
                /\ \/ OnHttpResponse(s, e, k, mask, files)
                   \/ SendStaticFileResponse(s, e, k, mask, files)
          /\ cgiFds' = cgiFds
      <4> HIDE DEF got, f
      <4>1. CASE /\ OnHttpError(s, got, kind, mask, files, FALSE)
                 /\ UNCHANGED <<cgiFds, cgiPids, worker, pipe>>
        BY <1>0, <3>1, <3>2, <3>3, <4>1 DEF OnHttpError
      <4>2. CASE \E q \in Requests : HandleRequest(s, got, q)
        <5>1. PICK q \in Requests : HandleRequest(s, got, q)
          BY <4>2
        <5> DEFINE served == Resolved(q.scenario)
                   e == [got EXCEPT !.v10 = q.v10, !.server = served]
                   Gives(k) == \/ OnHttpResponse(s, e, k, mask, files)
                               \/ SendStaticFileResponse(s, e, k, mask, files)
        <5>2. q.v10 \in BOOLEAN /\ served \in BOOLEAN
          BY ReqAssumption DEF Request, Resolved
        <5>3. /\ \/ Gives(kind)
                 \/ \E g \in Fd : kind[g] = "free" /\ Gives([kind EXCEPT ![g] = "dir"])
              /\ cgiFds' = cgiFds
          BY <5>1 DEF HandleRequest, SendDirectoryListing, OnHttpError, WaitingClients,
                      IsLowest, FreeFds
        <5> HIDE DEF served
        <5>4. /\ e \in Context /\ e.conn = got.conn /\ e.owed = got.owed /\ e.buf = got.buf
              /\ e.closed = got.closed /\ e.part = got.part
          BY <3>2, <5>2 DEF Context
        <5> HIDE DEF e
        <5>5. \E k \in [Fd -> Kind] : FilesOf(k, files, live \ {s}, ctx) /\ Gives(k)
          <6>1. CASE Gives(kind)
            BY <1>0, <3>3, <6>1
          <6>2. CASE \E g \in Fd : kind[g] = "free" /\ Gives([kind EXCEPT ![g] = "dir"])
            <7>1. PICK g \in Fd : kind[g] = "free" /\ Gives([kind EXCEPT ![g] = "dir"])
              BY <6>2
            <7> DEFINE k == [kind EXCEPT ![g] = "dir"]
            <7>2. /\ k \in [Fd -> Kind]
                  /\ \A h \in Fd : k[h] = "file" <=> kind[h] = "file"
              BY <1>0, <7>1 DEF Kind
            <7>3. FilesOf(k, files, live \ {s}, ctx)
              BY <3>3, <7>2 DEF FilesOf
            <7> QED BY <7>1, <7>2, <7>3
          <6> QED BY <5>3, <6>1, <6>2
        <5> QED BY <3>1, <3>2, <5>3, <5>4, <5>5
      <4> QED BY <2>3, <4>1, <4>2
    <3>5. PICK e \in Context, k \in [Fd -> Kind] :
                /\ e.conn = f /\ e.owed = 1 /\ e.buf = 0 /\ e.closed /\ e.part = FALSE
                /\ FilesOf(k, files, live \ {s}, ctx)
                /\ \/ OnHttpResponse(s, e, k, mask, files)
                   \/ SendStaticFileResponse(s, e, k, mask, files)
      BY <3>4
    <3>6. PICK d \in Context :
              /\ ctx' = [ctx EXCEPT ![s] = d]
              /\ d.conn = e.conn /\ d.part = e.part /\ Balanced(d)
              /\ d.owed + d.buf = 1
              /\ FilesOf(kind', files', live, ctx')
      BY <1>0, <3>5, Answered
    <3>7. inbox'[f] + d.owed + d.buf <= 1
      BY <2>1, <3>6 DEF Context
    <3>8. WInv'
      <4>1. ~d.part /\ d.conn = ctx[s].conn
        BY <3>5, <3>6
      <4>2. srv' # "undefined"
        BY <1>4 DEF WInv, NoUndefined
      <4> QED BY <1>4, <2>1, <3>4, <3>6, <3>7, <4>1, <4>2, Kept
    <3>9. WordOf(s) = "asked"
      BY <2>3, <3>1 DEF Word, WordOf
    <3>10. d.conn = f /\ Word(d, 0) \in {"busy", "answering"}
      BY <3>5, <3>6, Serving
    <3>11. /\ live' = live /\ d.conn = ctx[s].conn /\ inbox'[d.conn] = 0
           /\ \A g \in Fd : g # ctx[s].conn => inbox'[g] = inbox[g]
      BY <1>4, <2>1, <3>10
    <3>12. ServiceStep
      BY <3>6, <3>9, <3>10, <3>11, OneService
    <3> QED BY <3>8, <3>12
  <2> QED BY <1>4, <2>2, <2>3
<1> QED BY <1>3, <1>4 DEF OnSessionRead

\* Steps that touch nothing the invariant speaks of.
LEMMA StillKept ==
    ASSUME IInv, WInv, UNCHANGED <<kind, sessions, files, cgiFds, live, ctx, inbox, peer>>,
           evq' \in {evq, <<>>}, srv' # "undefined"
    PROVE  WInv' /\ ServiceStep
<1>1. Counted' /\ FilesOf(kind, files, live, ctx)' /\ Unconnected' /\ NoCgi'
  BY DEF WInv, Counted, FilesOf, Unconnected, NoCgi
<1>2. BegunOK' /\ OwnersOK' /\ NoUndefined'
  BY DEF WInv, BegunOK, OwnersOK, NoUndefined
<1>3. ServiceStep
  BY Found, SameService
<1> QED BY <1>1, <1>2, <1>3 DEF WInv

LEMMA WriteKept ==
    ASSUME IInv, WInv, NEW s \in live, OnSessionWrite(s), evq' = <<>>,
           evq # <<>>, evq[1].own = "session", evq[1].ss = s, evq[1].ev = "WRITE"
    PROVE  WInv' /\ ServiceStep
<1>0. /\ ctx \in [Session -> Context] /\ live \subseteq Session /\ ctx[s] \in Context
      /\ ctx[s].conn \in Fd
  BY Found
<1>1. CASE /\ mask' = [mask EXCEPT ![ctx[s].conn] = @ \ {"WRITE"}]
           /\ UNCHANGED <<srv, kind, sessions, files, cgiFds, cgiPids, heapVars,
                          backlog, inbox, peer, worker, pipe>>
  BY <1>1, StillKept DEF heapVars, WInv, NoUndefined
<1>2. CASE DeleteSessionCtx({s}) /\ srv' = srv
  BY <1>2, DeleteKept
<1>3. CASE Crash("write failed")
  BY <1>3, StillKept DEF Crash, tableVars, heapVars, envVars
<1>4. CASE /\ ctx[s].buf > 0
           /\ \E n \in Transmitted(ctx[s].buf) : ctx' = [ctx EXCEPT ![s].buf = @ - n]
           /\ UNCHANGED <<srv, tableVars, live, backlog, inbox, peer, worker, pipe>>
  <2>1. PICK n \in 0..ctx[s].buf : ctx' = [ctx EXCEPT ![s].buf = @ - n]
    BY <1>4 DEF Transmitted
  <2>2. /\ inbox[ctx[s].conn] = 0 /\ ctx[s].owed = 0 /\ ctx[s].buf = 1
        /\ ctx[s].buf - n \in {0, 1}
    BY <1>4, Counts
  <2> DEFINE b == ctx[s].buf - n
             d == [ctx[s] EXCEPT !.buf = b]
  <2>3. ctx' = [ctx EXCEPT ![s] = d] /\ b \in {0, 1}
    BY <2>1, <2>2
  <2> HIDE DEF b
  <2>4. /\ d.conn = ctx[s].conn /\ d.file = ctx[s].file /\ d.closed = ctx[s].closed
        /\ d.owed = ctx[s].owed /\ d.buf = b /\ d.part = ctx[s].part
    BY <1>0 DEF Context
  <2> HIDE DEF d
  <2>5. ctx'[s] = d /\ \A t \in live : t # s => ctx'[t] = ctx[t]
    BY <1>0, <2>3
  <2>6. FilesOf(kind', files', live, ctx')
    BY <1>4, <2>4, <2>5 DEF WInv, FilesOf, tableVars
  <2>7. /\ Balanced(d) /\ inbox'[ctx[s].conn] + d.owed + d.buf <= 1
        /\ d.part /\ d.owed + d.buf >= 1 => peer[ctx[s].conn] = "reset"
    BY <1>4, <2>2, <2>3, <2>4 DEF WInv, Counted, Balanced, BegunOK
  <2>8. WInv'
    <3>1. srv' # "undefined" /\ UNCHANGED <<sessions, cgiFds, live, inbox, peer>>
      BY <1>4 DEF WInv, NoUndefined, tableVars
    <3> QED BY <2>3, <2>4, <2>6, <2>7, <3>1, Kept
  <2>9. ~ctx[s].part
    BY <1>4, <2>2 DEF WInv, BegunOK
  <2>10. /\ WordOf(s) = "answering" /\ Word(d, 0) \in {"answering", "idle"}
         /\ inbox' = inbox /\ inbox'[d.conn] = 0
    BY <1>4, <2>2, <2>3, <2>4, <2>9 DEF Word, WordOf
  <2> DEFINE word == Word(d, inbox'[d.conn])
  <2>11. word \in {"answering", "idle"} /\ live' = live
    BY <1>4, <2>10
  <2>12. ServiceStep
    BY <2>3, <2>4, <2>10, <2>11, OneService
  <2> QED BY <2>8, <2>12
<1> QED BY <1>1, <1>2, <1>3, <1>4 DEF OnSessionWrite

\* The file of the session is open, and its response is owed.
LEMMA FileKept ==
    ASSUME IInv, WInv, NEW s \in live, NEW ev, StaticFileEvent(s, ev), evq' = <<>>,
           ~ctx[s].closed, ctx[s].file \in Fd, kind[ctx[s].file] = "file",
           files[ctx[s].file] = s
    PROVE  WInv' /\ ServiceStep
<1> DEFINE c == [ctx[s] EXCEPT !.closed = TRUE]
           g == ctx[s].file
           k == Closed(ctx[s], kind, "free")
           m == Closed(ctx[s], mask, {})
           fl == Closed(ctx[s], files, Nil)
<1>0. /\ ctx \in [Session -> Context] /\ live \subseteq Session /\ ctx[s] \in Context
      /\ ctx[s].conn \in Fd /\ kind \in [Fd -> Kind]
      /\ files \in [Fd -> Session \union {Nil}]
  BY Found
<1>1. /\ ctx[s].owed = 1 /\ ctx[s].buf = 0 /\ inbox[ctx[s].conn] = 0
  BY Counts
<1>2. /\ c \in Context /\ c.conn = ctx[s].conn /\ c.owed = 1 /\ c.buf = 0 /\ c.closed = TRUE
      /\ c.part = ctx[s].part
  BY <1>0, <1>1 DEF Context
<1>3. /\ k = [kind EXCEPT ![g] = "free"] /\ fl = [files EXCEPT ![g] = Nil]
  BY DEF Closed
<1>4. k \in [Fd -> Kind] /\ fl \in [Fd -> Session \union {Nil}]
  BY <1>0, <1>3 DEF Kind
<1>5. FilesOf(k, fl, live \ {s}, ctx)
  <2> HIDE DEF c, k, fl
  <2> SUFFICES ASSUME NEW f \in Fd, k[f] = "file"
               PROVE  /\ fl[f] \in live \ {s}
                      /\ ctx[fl[f]].file = f /\ ~ctx[fl[f]].closed
    BY DEF FilesOf
  <2>1. f # g /\ kind[f] = "file" /\ fl[f] = files[f]
    BY <1>0, <1>3
  <2>2. files[f] \in live /\ ctx[files[f]].file = f /\ ~ctx[files[f]].closed
    BY <2>1 DEF WInv, FilesOf
  <2> QED BY <2>1, <2>2
<1>6. CASE UNCHANGED <<srv, tableVars, heapVars, envVars>>
  BY <1>6, StillKept DEF tableVars, heapVars, envVars, WInv, NoUndefined
<1>7. CASE /\ OnStaticFileReadEnd(s) \/ OnStaticFileReadError(s)
           /\ UNCHANGED <<srv, sessions, cgiFds, cgiPids, live, envVars>>
  <2>1. \/ OnHttpResponse(s, c, k, m, fl)
        \/ SendStaticFileResponse(s, c, k, m, fl)
    BY <1>7 DEF OnStaticFileReadEnd, OnStaticFileReadError, OnHttpError
  <2> HIDE DEF c, k, m, fl
  <2>2. PICK d \in Context :
              /\ ctx' = [ctx EXCEPT ![s] = d]
              /\ d.conn = c.conn /\ d.part = c.part /\ Balanced(d)
              /\ d.owed + d.buf = 1
              /\ FilesOf(kind', files', live, ctx')
    BY <1>2, <1>4, <1>5, <2>1, Answered
  <2>3. inbox'[ctx[s].conn] + d.owed + d.buf <= 1
    BY <1>1, <1>7, <2>2 DEF envVars, Context
  <2>4. d.part /\ d.owed + d.buf >= 1 => peer[ctx[s].conn] = "reset"
    <3>1. ctx[s].part => peer[ctx[s].conn] = "reset"
      BY <1>1 DEF WInv, BegunOK
    <3> QED BY <1>2, <2>2, <3>1
  <2>5. WInv'
    <3>1. srv' # "undefined" /\ UNCHANGED <<sessions, cgiFds, live, inbox, peer>>
      BY <1>7 DEF WInv, NoUndefined, envVars
    <3> QED BY <1>2, <2>2, <2>3, <2>4, <3>1, Kept
  <2>6. WordOf(s) = "busy" /\ inbox' = inbox /\ d.conn = ctx[s].conn /\ inbox[d.conn] = 0
    BY <1>1, <1>2, <1>7, <2>2 DEF Word, WordOf, envVars
  <2>7. Word(d, 0) \in {"busy", "answering"}
    BY <2>2, Serving
  <2> QED BY <1>7, <2>2, <2>5, <2>6, <2>7, OneService
<1> QED BY <1>6, <1>7 DEF StaticFileEvent

\* A new session owes nothing, and nothing has been received for it.
LEMMA AcceptKept ==
    ASSUME IInv, WInv, OnListenerAccept, evq' = <<>>
    PROVE  WInv' /\ ServiceStep
<1>0. /\ ctx \in [Session -> Context] /\ live \subseteq Session /\ kind \in [Fd -> Kind]
      /\ sessions \in [Fd -> Session \union {Nil}]
  BY Found
<1>1. CASE \E f \in Fd, s \in Session \ live, v \in Garbage :
            /\ IsLowest({f}, kind)
            /\ kind' = [kind EXCEPT ![f] = "conn"]
            /\ sessions' = [sessions EXCEPT ![f] = s]
            /\ live' = live \union {s}
            /\ ctx' = [ctx EXCEPT ![s] = [NoContext EXCEPT !.conn = f, !.v10 = v]]
            /\ srv' = srv
            /\ UNCHANGED <<files, cgiFds, inbox, peer>>
  <2>1. PICK f \in Fd, s \in Session \ live, v \in Garbage :
            /\ IsLowest({f}, kind)
            /\ kind' = [kind EXCEPT ![f] = "conn"]
            /\ sessions' = [sessions EXCEPT ![f] = s]
            /\ live' = live \union {s}
            /\ ctx' = [ctx EXCEPT ![s] = [NoContext EXCEPT !.conn = f, !.v10 = v]]
            /\ srv' = srv
            /\ UNCHANGED <<files, cgiFds, inbox, peer>>
    BY <1>1
  <2> DEFINE c == [NoContext EXCEPT !.conn = f, !.v10 = v]
  <2>2. c.conn = f /\ c.closed = TRUE /\ c.buf = 0 /\ c.owed = 0 /\ c.part = FALSE
    BY DEF NoContext
  <2>3. kind[f] = "free" /\ inbox[f] = 0 /\ s # Nil
    <3>1. kind[f] = "free"
      BY <2>1 DEF IsLowest, FreeFds
    <3>2. sessions[f] = Nil
      BY <3>1, Found
    <3> QED BY <3>1, <3>2, NilAssumption DEF WInv, Unconnected
  <2>4. ctx' = [ctx EXCEPT ![s] = c]
    BY <2>1
  <2> HIDE DEF c
  <2>5. ctx'[s] = c /\ \A t \in live : t # s /\ ctx'[t] = ctx[t]
    BY <1>0, <2>4
  <2>6. Counted'
    <3> SUFFICES ASSUME NEW t \in live'
                 PROVE  /\ Balanced(ctx'[t])
                        /\ inbox[ctx'[t].conn] + ctx'[t].owed + ctx'[t].buf <= 1
      BY <2>1 DEF Counted, Balanced
    <3>1. CASE t = s
      BY <2>2, <2>3, <2>5, <3>1 DEF Balanced
    <3>2. CASE t # s
      BY <2>1, <2>5, <3>2 DEF WInv, Counted
    <3> QED BY <3>1, <3>2
  <2>7. FilesOf(kind, files, live, ctx)'
    BY <1>0, <2>1, <2>5 DEF WInv, FilesOf
  <2>8. Unconnected' /\ NoCgi'
    BY <1>0, <2>1, <2>3 DEF WInv, Unconnected, NoCgi
  <2>9. BegunOK' /\ OwnersOK' /\ NoUndefined'
    BY <2>1, <2>2, <2>5 DEF WInv, BegunOK, OwnersOK, NoUndefined
  <2>10. ServiceStep
    <3>0. ctx'[s] = c /\ inbox' = inbox
      BY <2>1, <2>5
    <3>1. WordOf(s)' = "idle" /\ \A t \in live : WordOf(t)' = WordOf(t)
      <4>1. WordOf(s)' = Word(c, inbox[f])
        BY <2>2, <3>0 DEF WordOf
      <4>2. Word(c, inbox[f]) = "idle"
        BY <2>2, <2>3 DEF Word
      <4> QED BY <2>5, <3>0, <4>1, <4>2 DEF WordOf
    <3>2. ServiceState' = [ServiceState EXCEPT ![s] = "idle"] /\ ServiceState[s] = "none"
      BY <1>0, <2>1, <2>5, <3>1, ServiceIs
    <3> QED BY <3>2 DEF ServiceStep, Service!Next, Service!Open, Service!To
  <2> QED BY <2>6, <2>7, <2>8, <2>9, <2>10 DEF WInv
<1>2. CASE UNCHANGED <<srv, tableVars, heapVars, inbox, peer>>
  BY <1>2, StillKept DEF tableVars, heapVars, WInv, NoUndefined
<1>3. CASE \E f \in Fd : /\ kind' = [kind EXCEPT ![f] = "leaked"]
                         /\ srv' = srv
                         /\ UNCHANGED <<sessions, files, cgiFds, heapVars, inbox, peer>>
  <2>1. \A g \in Fd : kind'[g] = "file" => kind[g] = "file"
    BY <1>0, <1>3
  <2>2. UNCHANGED <<srv, sessions, files, cgiFds, live, ctx, inbox, peer>>
    BY <1>3 DEF heapVars
  <2>3. Counted' /\ FilesOf(kind, files, live, ctx)' /\ Unconnected' /\ NoCgi'
    BY <2>1, <2>2 DEF WInv, Counted, FilesOf, Unconnected, NoCgi
  <2>4. BegunOK' /\ OwnersOK' /\ NoUndefined'
    BY <2>2 DEF WInv, BegunOK, OwnersOK, NoUndefined
  <2>5. ServiceStep
    BY <1>0, <2>2, SameService
  <2> QED BY <2>3, <2>4, <2>5 DEF WInv
<1> QED BY <1>1, <1>2, <1>3 DEF OnListenerAccept, heapVars, envVars

LEMMA HandleKept ==
    ASSUME IInv, WInv, WaitingClients, srv = "up", HandleEvent
    PROVE  WInv' /\ ServiceStep
<1>1. evq' = <<>> /\ evq # <<>>
  <2>1. Len(evq) = 1 /\ evq \in Seq(Event)
    BY DEF IInv, QueueOK, LoopOK, HandleEvent
  <2>2. Tail(evq) = <<>>
    BY <2>1, LastOne
  <2> QED BY <2>2 DEF HandleEvent
<1>2. CASE HandleListener
  BY <1>1, <1>2, AcceptKept DEF HandleListener
<1>3. CASE HandleSession
  <2> DEFINE s == evq[1].ss
             ev == evq[1].ev
  <2>1. s \in live /\ evq[1].own = "session"
    BY <1>1, <1>3, Owned DEF HandleSession
  <2>2. \/ ev = "READ" /\ OnSessionRead(s)
        \/ ev = "WRITE" /\ OnSessionWrite(s)
        \/ OnSessionHup(s)
    BY <1>3, <2>1 DEF HandleSession
  <2>3. CASE ev = "READ" /\ OnSessionRead(s)
    BY <1>1, <2>1, <2>3, ReadKept
  <2>4. CASE ev = "WRITE" /\ OnSessionWrite(s)
    BY <1>1, <2>1, <2>4, WriteKept
  <2>5. CASE OnSessionHup(s)
    BY <1>1, <2>1, <2>5, DeleteKept DEF OnSessionHup
  <2> QED BY <2>2, <2>3, <2>4, <2>5
<1>4. CASE HandleFile
  <2> DEFINE s == evq[1].ss
  <2>1. /\ s \in live /\ ~ctx[s].closed /\ ctx[s].file \in Fd
        /\ kind[ctx[s].file] = "file" /\ files[ctx[s].file] = s
    BY <1>1, <1>4, Owned DEF HandleFile
  <2>2. StaticFileEvent(s, evq[1].ev)
    BY <1>4, <2>1 DEF HandleFile
  <2> HIDE DEF s
  <2> QED BY <1>1, <2>1, <2>2, FileKept
<1>5. CASE HandleCgi
  BY <1>1, <1>5, Owned DEF HandleCgi
<1>6. CASE HandleDebug
  BY <1>1, <1>6, StillKept DEF HandleDebug, tableVars, heapVars, envVars, WInv, NoUndefined
<1> QED BY <1>2, <1>3, <1>4, <1>5, <1>6 DEF HandleEvent

LEMMA ReapKept ==
    ASSUME IInv, WInv, EvaluateCgiWorkers
    PROVE  WInv' /\ ServiceStep
<1>0. ctx \in [Session -> Context] /\ live \subseteq Session /\ kind \in [Fd -> Kind]
  BY Found
<1> DEFINE D == Exited
           F == Ends(D)
<1>1. /\ evq = <<>> /\ evq' = <<>>
      /\ kind' = Put(kind, F, "ended") /\ cgiFds' = Put(cgiFds, F, Nil)
      /\ ctx' = [s \in Session |-> IF ctx[s].cgi \in D
                                   THEN [ctx[s] EXCEPT !.cgi = Dangling] ELSE ctx[s]]
      /\ UNCHANGED <<srv, sessions, files, live, inbox, peer>>
  BY DEF EvaluateCgiWorkers
<1> HIDE DEF D, F
<1>2. \A s \in Session : /\ ctx'[s] \in Context
                         /\ ctx'[s].conn = ctx[s].conn /\ ctx'[s].owed = ctx[s].owed
                         /\ ctx'[s].buf = ctx[s].buf /\ ctx'[s].file = ctx[s].file
                         /\ ctx'[s].closed = ctx[s].closed /\ ctx'[s].part = ctx[s].part
  BY <1>0, <1>1 DEF Context
<1>3. \A f \in Fd : kind'[f] = "file" => kind[f] = "file"
  BY <1>0, <1>1 DEF Put
<1>4. Counted'
  BY <1>0, <1>1, <1>2 DEF WInv, Counted, Balanced
<1>5. FilesOf(kind, files, live, ctx)'
  BY <1>0, <1>1, <1>2, <1>3 DEF WInv, FilesOf
<1>6. NoCgi'
  <2>1. \A f \in Fd : cgiFds[f] = Nil
    BY DEF WInv, NoCgi
  <2>2. DOMAIN cgiFds = Fd
    BY DEF IInv, TablesInv, Tables, Typed
  <2> QED BY <1>1, <2>1, <2>2 DEF NoCgi, Put
<1>7. Unconnected' /\ BegunOK' /\ OwnersOK' /\ NoUndefined'
  BY <1>0, <1>1, <1>2 DEF WInv, Unconnected, BegunOK, OwnersOK, NoUndefined
<1>8. ServiceStep
  <2>1. ctx' \in [Session -> Context]
    BY <1>1, <1>2
  <2> QED BY <1>0, <1>1, <1>2, <2>1, SameService
<1> QED BY <1>4, <1>5, <1>6, <1>7, <1>8 DEF WInv

LEMMA TimeoutKept ==
    ASSUME IInv, WInv, EvaluateIoTimeouts
    PROVE  WInv' /\ ServiceStep
<1>1. evq' = <<>>
  BY DEF IInv, QueueOK, EvaluateIoTimeouts
<1>2. TimedOut \in SUBSET live
  BY DEF IInv, EnvOK, TimedOut
<1> QED BY <1>1, <1>2, DeleteKept DEF EvaluateIoTimeouts

\* Poll reports a connection that was reset as an error, and a file that is
\* polled as its own.
LEMMA PollKept ==
    ASSUME IInv, WInv, EvaluateIoEvents
    PROVE  WInv' /\ ServiceStep
<1>1. /\ evq = <<>>
      /\ UNCHANGED <<kind, sessions, files, cgiFds, live, ctx, inbox, peer>>
  BY DEF IInv, QueueOK, EvaluateIoEvents, tableVars, heapVars, envVars
<1>2. ASSUME NEW e, evq' = Append(evq, e), srv' = srv, e.own # "cgi",
             e.own = "file" => e.fd \in Fd /\ files[e.fd] # Nil,
             \A s \in live : e.own = "session" /\ e.ss = s /\ e.ev \in {"READ", "WRITE"}
                               => peer[ctx[s].conn] # "reset"
      PROVE  WInv' /\ ServiceStep
  <2>1. evq' = <<e>>
    BY <1>1, <1>2
  <2>2. evq'[1] = e
    BY <2>1
  <2>3. Counted' /\ FilesOf(kind, files, live, ctx)' /\ Unconnected' /\ NoCgi'
    BY <1>1 DEF WInv, Counted, FilesOf, Unconnected, NoCgi
  <2>4. BegunOK' /\ OwnersOK' /\ NoUndefined'
    BY <1>1, <1>2, <2>2 DEF WInv, BegunOK, OwnersOK, NoUndefined
  <2>5. ServiceStep
    BY <1>1, Found, SameService
  <2> QED BY <2>3, <2>4, <2>5 DEF WInv
<1>3. CASE \E f \in {g \in Fd : mask[g] # {}} : \E r \in Reported(f) \ {{}} :
            LET e == SwitchEventSpawners(MostWantedPollEvent(r), f) IN
            /\ IF Supported(e)
               THEN evq' = Append(evq, e) /\ phase' = "drain" /\ srv' = srv
               ELSE srv' = "unsupported" /\ UNCHANGED <<evq, phase>>
  <2>0. PICK f \in {g \in Fd : mask[g] # {}} : \E r \in Reported(f) \ {{}} :
            LET e == SwitchEventSpawners(MostWantedPollEvent(r), f) IN
            /\ IF Supported(e)
               THEN evq' = Append(evq, e) /\ phase' = "drain" /\ srv' = srv
               ELSE srv' = "unsupported" /\ UNCHANGED <<evq, phase>>
    BY <1>3
  <2>1. PICK r \in Reported(f) \ {{}} :
            LET e == SwitchEventSpawners(MostWantedPollEvent(r), f) IN
            /\ IF Supported(e)
               THEN evq' = Append(evq, e) /\ phase' = "drain" /\ srv' = srv
               ELSE srv' = "unsupported" /\ UNCHANGED <<evq, phase>>
    BY <2>0
  <2> DEFINE ev == MostWantedPollEvent(r)
             e == SwitchEventSpawners(ev, f)
  <2>2. CASE ~Supported(e)
    BY <1>1, <2>1, <2>2, StillKept
  <2>3. CASE Supported(e)
    <3>1. evq' = Append(evq, e) /\ srv' = srv
      BY <2>1, <2>3
    <3>2. kind[f] = "conn" /\ peer[f] = "reset" => ev \notin {"READ", "WRITE"}
      BY <2>1 DEF Reported, Revents, When, MostWantedPollEvent
    <3>3. cgiFds[f] = Nil
      BY DEF WInv, NoCgi
    <3> HIDE DEF ev
    <3>4. /\ e.own # "cgi"
          /\ e.own = "file" => e.fd \in Fd /\ files[e.fd] # Nil
          /\ e.own = "session" => e.ss = sessions[f] /\ sessions[f] # Nil /\ e.ev = ev
      BY <3>3 DEF SwitchEventSpawners
    <3> HIDE DEF e
    <3>5. \A s \in live : e.own = "session" /\ e.ss = s /\ e.ev \in {"READ", "WRITE"}
                                 => peer[ctx[s].conn] # "reset"
      BY <3>2, <3>4, Found
    <3> QED BY <1>2, <3>1, <3>4, <3>5
  <2> QED BY <2>2, <2>3
<1>4. CASE /\ evq' = Append(evq, [own |-> "none", ev |-> "NONE", fd |-> Nil, ss |-> Nil])
           /\ srv' = srv
  BY <1>2, <1>4
<1> QED BY <1>3, <1>4 DEF EvaluateIoEvents

\* A client sends when nothing is in flight; a connection that was reset stays so.
LEMMA EnvironmentKept ==
    ASSUME IInv, WInv, WaitingClients, Environment, ~Resume
    PROVE  WInv' /\ ServiceStep
<1>0. /\ UNCHANGED <<srv, phase, evq, kind, mask, sessions, files, cgiFds, cgiPids, live, ctx>>
      /\ inbox \in [Fd -> Nat] /\ peer \in [Fd -> {"open", "shut", "reset"}]
      /\ \A s \in live : ctx[s].conn \in Fd /\ sessions[ctx[s].conn] = s
  BY Found DEF Environment, Connect, Send, Shutdown, Reset, Lapse, WorkerWrite, WorkerExit,
         Others, tableVars, heapVars
<1>1. CASE UNCHANGED <<inbox, peer>>
  BY <1>0, <1>1, StillKept DEF WInv, NoUndefined
<1>2. CASE \E s \in live : Send(s)
  <2>1. PICK s \in live : Send(s)
    BY <1>2
  <2> DEFINE f == ctx[s].conn
             more == inbox[f] + 1
  <2>2. inbox[f] = 0 /\ ctx[s].owed = 0 /\ ctx[s].buf = 0
    <3>1. inbox[f] + Positive(ctx[s].owed) + ctx[s].buf = 0
      BY <2>1 DEF Send, WaitingClients
    <3> QED BY <3>1, Counts DEF Positive
  <2>3. inbox' = [inbox EXCEPT ![f] = more] /\ more = 1 /\ peer' = peer
    BY <2>1, <2>2 DEF Send
  <2> HIDE DEF more
  <2>4. inbox'[f] = 1 /\ \A g \in Fd : g # f => inbox'[g] = inbox[g]
    BY <1>0, <2>3
  <2>5. Counted'
    <3> SUFFICES ASSUME NEW t \in live
                 PROVE  Balanced(ctx[t]) /\ inbox'[ctx[t].conn] + ctx[t].owed + ctx[t].buf <= 1
      BY <1>0 DEF Counted, Balanced
    <3>1. CASE t = s
      BY <2>2, <2>4, <3>1 DEF WInv, Counted
    <3>2. CASE t # s
      BY <1>0, <2>4, <3>2 DEF WInv, Counted
    <3> QED BY <3>1, <3>2
  <2>6. Unconnected'
    BY <1>0, <2>4, NilAssumption, Found DEF WInv, Unconnected
  <2>7. FilesOf(kind, files, live, ctx)' /\ NoCgi' /\ BegunOK' /\ OwnersOK' /\ NoUndefined'
    BY <1>0, <2>3 DEF WInv, FilesOf, NoCgi, BegunOK, OwnersOK, NoUndefined
  <2>8. ServiceStep
    <3>1. \A t \in live : WordOf(t)' = IF t = s THEN "asked" ELSE WordOf(t)
      BY <1>0, <2>2, <2>4 DEF Word, WordOf
    <3>2. WordOf(s) \in {"idle", "asked"} /\ s \in Session /\ live \subseteq Session
      BY <2>2, Found DEF Word, WordOf
    <3>3. ServiceState' = [ServiceState EXCEPT ![s] = "asked"] /\ ServiceState[s] = WordOf(s)
      BY <1>0, <3>1, <3>2, ServiceIs
    <3>4. CASE WordOf(s) = "idle"
      BY <3>2, <3>3, <3>4 DEF ServiceStep, Service!Next, Service!Ask, Service!To
    <3>5. CASE WordOf(s) = "asked"
      <4>1. ServiceState' = ServiceState
        BY <1>0, <3>1, <3>2, <3>5, ServiceIs
      <4> QED BY <4>1 DEF ServiceStep
    <3> QED BY <3>2, <3>4, <3>5
  <2> QED BY <2>5, <2>6, <2>7, <2>8 DEF WInv
<1>3. CASE \E s \in live : Shutdown(s) \/ Reset(s)
  <2>1. inbox' = inbox /\ \A f \in Fd : peer[f] = "reset" => peer'[f] = "reset"
    BY <1>0, <1>3 DEF Shutdown, Reset
  <2>2. BegunOK'
    BY <1>0, <2>1 DEF WInv, BegunOK
  <2>3. /\ Counted' /\ FilesOf(kind, files, live, ctx)' /\ Unconnected' /\ NoCgi'
        /\ OwnersOK' /\ NoUndefined'
    BY <1>0, <2>1 DEF WInv, Counted, FilesOf, Unconnected, NoCgi, OwnersOK, NoUndefined
  <2>4. ServiceStep
    BY <1>0, <2>1, Found, SameService
  <2> QED BY <2>2, <2>3, <2>4 DEF WInv
<1> QED BY <1>1, <1>2, <1>3 DEF Environment, Connect, Lapse, WorkerWrite, WorkerExit

LEMMA WInit == Init => WInv /\ Service!Init
<1> SUFFICES ASSUME Init PROVE WInv /\ Service!Init
  OBVIOUS
<1>1. WInv
  BY DEF Init, WInv, Counted, FilesOf, Unconnected, NoCgi, BegunOK, OwnersOK, NoUndefined
<1>2. Service!Init
  BY DEF Init, Service!Init, ServiceState
<1> QED BY <1>1, <1>2

LEMMA WNext == WaitingClients /\ IInv /\ WInv /\ [Next]_vars => WInv' /\ ServiceStep
<1> SUFFICES ASSUME WaitingClients, IInv, WInv, [Next]_vars PROVE WInv' /\ ServiceStep
  OBVIOUS
<1>1. CASE Handle
  BY <1>1, HandleKept DEF Handle
<1>2. CASE EvaluateCgiWorkers
  BY <1>2, ReapKept
<1>3. CASE EvaluateIoTimeouts
  BY <1>3, TimeoutKept
<1>4. CASE EvaluateIoEvents
  BY <1>4, PollKept
<1>5. CASE Environment
  <2>1. CASE Resume
    BY <1>5, <2>1, HandleKept DEF Environment, Resume
  <2> QED BY <1>5, <2>1, EnvironmentKept
<1>6. CASE Stopped \/ UNCHANGED vars
  BY <1>6, StillKept DEF Stopped, vars, loopVars, tableVars, heapVars, envVars, WInv, NoUndefined
<1>7. CASE Block
  BY <1>7, StillKept DEF Block, tableVars, heapVars, envVars, WInv, NoUndefined
<1> QED BY <1>1, <1>2, <1>3, <1>4, <1>5, <1>6, <1>7 DEF Next, Loop

-----------------------------------------------------------------------------
(* The theorems *)

\* What is in flight on each connection is one thing at most, whatever the
\* order of responses, resets, timeouts and new connections.
THEOREM WaitingConsistent ==
    ASSUME WaitingClients
    PROVE  Spec => []WInv
  BY WaitingClients, WInit, WNext, Consistent, PTL DEF Spec

\* Each request of a waiting client gets one response: the session owes one
\* exactly while the file that will be the response is open.
THEOREM ResponsesExact ==
    ASSUME WaitingClients
    PROVE  Spec => []OneResponsePerRequest
<1>1. WInv => OneResponsePerRequest
  BY DEF WInv, Counted, Balanced, OneResponsePerRequest
<1> QED BY <1>1, WaitingConsistent, PTL

\* No static file stays open without a session that will close it.
THEOREM FilesClosed ==
    ASSUME WaitingClients
    PROVE  Spec => []FilesExact
<1>1. WInv => FilesExact
  BY DEF WInv, FilesOf, FilesExact
<1> QED BY <1>1, WaitingConsistent, PTL

\* No handler of webserver_sessions.cc or webserver_static.cc uses a session
\* that was deleted or a file that was closed.
THEOREM NothingFreedIsUsed ==
    ASSUME WaitingClients
    PROVE  Spec => []NoUndefined
<1>1. WInv => NoUndefined
  BY DEF WInv
<1> QED BY <1>1, WaitingConsistent, PTL

\* The server implements ConnectionService: requests of a connection are taken
\* one at a time, and each is answered before the next one.
THEOREM ServiceImplemented ==
    ASSUME WaitingClients
    PROVE  Spec => RefinesService
<1>1. WaitingClients /\ IInv /\ WInv /\ [Next]_vars => [Service!Next]_ServiceState
  BY WNext DEF ServiceStep
<1>2. Init => Service!Init
  BY WInit
<1> QED BY WaitingClients, <1>1, <1>2, Consistent, WaitingConsistent, PTL
        DEF Spec, RefinesService, Service!Spec
=============================================================================
