----------------------------- MODULE HttpUpload -----------------------------
(***************************************************************************)
(* An upload: __HandleUploadRequest and __OnUploadEnd of                   *)
(* src/sources/netlib/webserver/webserver_upload.cc.  The body is cut at   *)
(* the boundary, each part gives at most one file, every name is checked   *)
(* and then every file is created, one system call after another.  The     *)
(* server does nothing else meanwhile, but CGI workers and other processes *)
(* create, rename and remove files of the same directory at any moment.    *)
(*                                                                         *)
(* A body is a sequence of symbols: "B" (two dashes and the boundary),     *)
(* "--", "CR", "LF", a name of Name for a Content-Disposition line with    *)
(* that filename, and "x" for other text.  A directory maps names to       *)
(* inodes, which keep their contents when they lose their name.            *)
(***************************************************************************)
EXTENDS HttpDispatch, FiniteSets

CONSTANTS
    Name,     \* file names
    Bodies,   \* bodies of requests
    Inode,    \* what can be allocated on the disk
    Theirs,   \* the contents other processes write
    NoInode

Symbol == Name \union {"B", "--", "CR", "LF", "x"}

ASSUME UploadAssumption == /\ Bodies \subseteq Seq(Symbol)
                           /\ Name \intersect {"B", "--", "CR", "LF", "x"} = {}
                           /\ NoInode \notin Inode
                           /\ Theirs \notin Seq(Symbol)

VARIABLES
    body,    \* the request
    pos,     \* __tok_end of the body's Tokenizator
    phase,   \* what __HandleUploadRequest is doing
    files,   \* the files found in the body
    n,       \* how many of them the loop has done
    fd,      \* the inode of the file that is open, or NoInode
    fail,    \* file_fail
    urls,    \* file_urls
    code,    \* ss->res_code, 0 before there is an answer
    dir,     \* the upload directory
    data,    \* the contents of the inodes in use
    mine     \* the inodes this request has created

request == <<body, pos, phase, files, n, fd, fail, urls, code>>
disk    == <<dir, data, mine>>
vars    == <<request, disk>>

Init == /\ body \in Bodies /\ pos = 0 /\ phase = "parse" /\ files = <<>>
        /\ n = 0 /\ fd = NoInode /\ fail = FALSE /\ urls = <<>> /\ code = 0
        /\ \E old \in [Name -> Inode \union {NoInode}] :
              /\ \A a, b \in Name : old[a] = old[b] /\ a # b => old[a] = NoInode
              /\ dir = old
              /\ data = [f \in Inode |-> IF \E a \in Name : old[a] = f THEN Theirs ELSE <<>>]
        /\ mine = {}

-----------------------------------------------------------------------------
(* Tokenizator *)

Part(q, b, e) == SubSeq(q, b + 1, e)       \* from b up to and without e, from 0

\* find: the first index from b on that holds s, or the length.
Find(q, s, b) ==
    LET at == {k \in b..(Len(q) - 1) : q[k + 1] = s}
    IN  IF at = {} THEN Len(q) ELSE CHOOSE k \in at : \A l \in at : k <= l

\* NextS skips the delimiters at the current position.
TokenBegin(q, b) ==
    LET at == {k \in b..(Len(q) - 1) : q[k + 1] # "B"}
    IN  IF at = {} THEN Len(q) ELSE CHOOSE k \in at : \A l \in at : k <= l

LineEnds(q)   == {k \in 0..(Len(q) - 1) : q[k + 1] = "LF"}
LineStarts(q) == {0} \union {k + 1 : k \in LineEnds(q)}

\* NextLine: the line from b, without its line end.
Line(q, b) ==
    LET e == Find(q, "LF", b)
    IN  IF e < Len(q) /\ e > b /\ q[e] = "CR" THEN Part(q, b, e - 1) ELSE Part(q, b, e)

-----------------------------------------------------------------------------
(* HandleChunk *)

\* The empty line that ends the headers: not the first line, and with a line end.
EmptyLines(chunk) == {b \in LineStarts(chunk) \ {0} : /\ Line(chunk, b) = <<>>
                                                      /\ b < Len(chunk)}
HeadersEnd(chunk) == CHOOSE b \in EmptyLines(chunk) : \A c \in EmptyLines(chunk) : b <= c

\* The starts of the lines that name a file; the last one counts.
NameLines(chunk) == {b \in LineStarts(chunk) : /\ b < HeadersEnd(chunk)
                                               /\ \E f \in Name : Line(chunk, b) = <<f>>}
LastName(chunk)  == CHOOSE b \in NameLines(chunk) : \A c \in NameLines(chunk) : c <= b

\* The contents end at the first LF.
ToTheFirstLF(chunk) ==                                         \* mutant
    LET begin == Find(chunk, "LF", HeadersEnd(chunk)) + 1
    IN  Part(chunk, begin, Find(chunk, "LF", begin))

\* The contents end before the last LF of the chunk: a CR before it is kept.
\* When the last LF is that of the headers the length underflows, and substr
\* takes all there is.
Contents(chunk) ==
    LET begin == Find(chunk, "LF", HeadersEnd(chunk)) + 1
        end   == CHOOSE e \in LineEnds(chunk) : \A l \in LineEnds(chunk) : l <= e
    IN  IF end >= begin THEN Part(chunk, begin, end) ELSE Part(chunk, begin, Len(chunk))

HandleChunk(chunk) ==
    IF EmptyLines(chunk) = {} THEN <<>>
    ELSE IF NameLines(chunk) = {} THEN <<>>
    ELSE <<[name |-> Line(chunk, LastName(chunk))[1], contents |-> Contents(chunk)]>>

-----------------------------------------------------------------------------
(* __HandleUploadRequest *)

Last == {<<"--">>, <<"--", "LF">>, <<"--", "CR", "LF">>}

ParseBody ==
    LET begin == TokenBegin(body, pos)
        end   == Find(body, "B", begin)
        chunk == Part(body, begin, end)
    IN  /\ phase = "parse"
        /\ \/ /\ begin = Len(body) \/ chunk \in Last
              /\ phase' = "check"
              /\ UNCHANGED <<pos, files>>
           \/ /\ begin < Len(body) /\ chunk \notin Last
              /\ pos' = end
              /\ files' = files \o HandleChunk(chunk)
              /\ phase' = phase
        /\ UNCHANGED <<body, n, fd, fail, urls, code, disk>>

-----------------------------------------------------------------------------
(* __OnUploadEnd *)

This   == files[n + 1]
Answered(c) == code' = c /\ phase' = "done"

\* Each file is created as soon as it has been checked.
CheckAsYouGo ==                                                \* mutant
    /\ phase = "check" /\ n < Len(files)
    /\ \/ dir[This.name] # NoInode /\ Answered(403) /\ n' = n /\ UNCHANGED <<fd, disk>>
       \/ \E f \in Inode :
            /\ dir[This.name] = NoInode /\ data[f] = <<>> /\ f \notin mine
            /\ dir' = [dir EXCEPT ![This.name] = f]
            /\ mine' = mine \union {f}
            /\ n' = n + 1 /\ UNCHANGED <<code, phase, data, fd>>
    /\ UNCHANGED <<body, pos, files, fail, urls>>

CheckFile ==
    /\ phase = "check" /\ n < Len(files)
    /\ \/ dir[This.name] # NoInode /\ Answered(403) /\ n' = n
       \/ dir[This.name] = NoInode /\ n' = n + 1 /\ UNCHANGED <<code, phase>>
    /\ UNCHANGED <<body, pos, files, fd, fail, urls, disk>>

Checked ==
    /\ phase = "check" /\ n = Len(files)
    /\ phase' = "create" /\ n' = 0
    /\ UNCHANGED <<body, pos, files, fd, fail, urls, code, disk>>

InUse == {f \in Inode : f \in mine \/ data[f] # <<>> \/ \E a \in Name : dir[a] = f}

NotExclusive ==                                                \* mutant
    /\ phase = "create" /\ n < Len(files) /\ fd = NoInode
    /\ \/ /\ fail' = TRUE /\ n' = n + 1 /\ UNCHANGED <<fd, disk>>
       \/ \E f \in Inode \ InUse :
            /\ dir[This.name] = NoInode
            /\ fd' = f
            /\ dir' = [dir EXCEPT ![This.name] = f]
            /\ mine' = mine \union {f}
            /\ UNCHANGED <<data, fail, n>>
       \/ /\ dir[This.name] # NoInode
          /\ fd' = dir[This.name]
          /\ UNCHANGED <<disk, fail, n>>
    /\ UNCHANGED <<body, pos, phase, files, urls, code>>

Forgets ==                                                     \* mutant
    /\ phase = "create" /\ n < Len(files) /\ fd = NoInode
    /\ \/ /\ n' = n + 1 /\ UNCHANGED <<fail, fd, disk>>
       \/ \E f \in Inode \ InUse :
            /\ dir[This.name] = NoInode
            /\ fd' = f
            /\ dir' = [dir EXCEPT ![This.name] = f]
            /\ mine' = mine \union {f}
            /\ UNCHANGED <<data, fail, n>>
    /\ UNCHANGED <<body, pos, phase, files, urls, code>>

\* open with O_CREAT | O_EXCL fails when the name is taken, and may fail for
\* any other reason.
OpenFile ==
    /\ phase = "create" /\ n < Len(files) /\ fd = NoInode
    /\ \/ /\ fail' = TRUE /\ n' = n + 1 /\ UNCHANGED <<fd, disk>>
       \/ \E f \in Inode \ InUse :
            /\ dir[This.name] = NoInode
            /\ fd' = f
            /\ dir' = [dir EXCEPT ![This.name] = f]
            /\ mine' = mine \union {f}
            /\ UNCHANGED <<data, fail, n>>
    /\ UNCHANGED <<body, pos, phase, files, urls, code>>

\* The loop moves on twice after a file it has written.
StepsTwice ==                                                  \* mutant
    /\ phase = "create" /\ fd # NoInode
    /\ \E k \in 0..Len(This.contents) : data' = [data EXCEPT ![fd] = SubSeq(This.contents, 1, k)]
    /\ urls' = Append(urls, This.name)
    /\ fd' = NoInode /\ n' = n + 2
    /\ UNCHANGED <<body, pos, phase, files, fail, code, dir, mine>>

\* One write, of which nobody looks at the result, and close.
WriteFile ==
    /\ phase = "create" /\ fd # NoInode
    /\ \E k \in 0..Len(This.contents) : data' = [data EXCEPT ![fd] = SubSeq(This.contents, 1, k)]
    /\ urls' = Append(urls, This.name)
    /\ fd' = NoInode /\ n' = n + 1
    /\ UNCHANGED <<body, pos, phase, files, fail, code, dir, mine>>

Finish ==
    /\ phase = "create" /\ n = Len(files)
    /\ Answered(IF fail THEN 500 ELSE 201)
    /\ UNCHANGED <<body, pos, files, n, fd, fail, urls, disk>>

Server == ParseBody \/ CheckFile \/ Checked \/ OpenFile \/ WriteFile \/ Finish

-----------------------------------------------------------------------------
(* Other processes *)

Create(a) == \E f \in Inode \ InUse :
    /\ dir[a] = NoInode
    /\ dir' = [dir EXCEPT ![a] = f]
    /\ data' = [data EXCEPT ![f] = Theirs]
    /\ UNCHANGED <<request, mine>>

Remove(a) == /\ dir[a] # NoInode
             /\ dir' = [dir EXCEPT ![a] = NoInode]
             /\ UNCHANGED <<request, data, mine>>

Rename(a, b) == /\ dir[a] # NoInode /\ a # b
                /\ dir' = [dir EXCEPT ![b] = dir[a], ![a] = NoInode]
                /\ UNCHANGED <<request, data, mine>>

\* The request is answered: what becomes of its files is not modelled.
Others == /\ phase # "done"
          /\ \E a \in Name : \/ Create(a) \/ Remove(a)
                             \/ \E b \in Name : Rename(a, b)

Next == Server \/ Others

Spec == Init /\ [][Next]_vars

-----------------------------------------------------------------------------
File == [name : Name, contents : Seq(Symbol)]

TypeOK == /\ body \in Seq(Symbol) /\ pos \in 0..Len(body)
          /\ phase \in {"parse", "check", "create", "done"}
          /\ files \in Seq(File) /\ n \in 0..Len(files)
          /\ fd \in Inode \union {NoInode} /\ fail \in BOOLEAN
          /\ urls \in Seq(Name) /\ code \in {0, 201, 403, 500}
          /\ dir \in [Name -> Inode \union {NoInode}]
          /\ data \in [Inode -> Seq(Symbol) \union {Theirs}]
          /\ mine \in SUBSET Inode

\* The server writes to files it has created itself only, whatever is created,
\* renamed or removed between the check of a name, the open and the write.
WritesOwnFiles ==
    [][\A f \in Inode : data'[f] # data[f] /\ data'[f] # Theirs => f \in mine]_vars

\* A 201 response lists every file of the request in order, and each was
\* created by the request; a file that was not created makes the response 500.
CreatedAll ==
    code = 201 => /\ Len(urls) = Len(files)
                  /\ \A k \in DOMAIN urls : urls[k] = files[k].name
                  /\ \A k \in DOMAIN files : \E f \in mine : data[f] \in
                        {SubSeq(files[k].contents, 1, l) : l \in 0..Len(files[k].contents)}

\* The answer is one of those HttpDispatch gives for an upload with a boundary,
\* and touches the disk only if that one does: a request that is refused
\* because a name is taken has created nothing.
AnswersAsDispatched ==
    phase = "done" => \E store \in {"clash", "fail", "ok"} :
        LET a == HandleUploadRequest([form |-> "bounded", store |-> store])
        IN  a.code = code /\ (a.effect = "none" => mine = {})

-----------------------------------------------------------------------------
(* A multipart body, as a client builds it: parts, each after a boundary,  *)
(* with a header line, an empty line, contents and a line end, and "--"    *)
(* after the last boundary.  Contents hold no boundary.                    *)

Eols == {<<"LF">>, <<"CR", "LF">>}

Boundaries(b)        == {k \in DOMAIN b : b[k] = "B"}
Consecutive(b, k, l) == k < l /\ \A o \in Boundaries(b) : o <= k \/ l <= o
Final(b, k)          == \A o \in Boundaries(b) : o <= k

IsPart(b, k, l, e) == LET m == Len(e) IN
    /\ k + 4 * m + 2 <= l
    /\ SubSeq(b, k + 1, k + m) = e
    /\ b[k + m + 1] \in Name \union {"x"}
    /\ SubSeq(b, k + m + 2, k + 2 * m + 1) = e
    /\ SubSeq(b, k + 2 * m + 2, k + 3 * m + 1) = e
    /\ SubSeq(b, l - m, l - 1) = e

Multipart(b, e) ==
    /\ 1 \in Boundaries(b)
    /\ \A k, l \in Boundaries(b) : Consecutive(b, k, l) => IsPart(b, k, l, e)
    /\ \A k \in Boundaries(b) : Final(b, k) => SubSeq(b, k + 1, Len(b)) = <<"--">> \o e

\* The parts that are files, and the place of each among them.
FileParts(b, e) == {k \in Boundaries(b) : b[k + Len(e) + 1] \in Name}
Place(b, k, e)  == Cardinality({j \in FileParts(b, e) : j <= k})
PartFile(b, k, l, e) == [name     |-> b[k + Len(e) + 1],
                         contents |-> SubSeq(b, k + 3 * Len(e) + 2, l - 2)]

\* The files a client has sent arrive under their names and in their order,
\* whatever their contents and however many there are.  All that is before the
\* last LF is kept: between CR LF that includes the CR before the boundary.
PartsExact ==
    phase # "parse" => \A e \in Eols : Multipart(body, e) =>
        /\ Len(files) = Cardinality(FileParts(body, e))
        /\ \A k \in FileParts(body, e), l \in Boundaries(body) : Consecutive(body, k, l) =>
              files[Place(body, k, e)] = PartFile(body, k, l, e)
=============================================================================
