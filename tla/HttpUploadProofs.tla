-------------------------- MODULE HttpUploadProofs --------------------------
(***************************************************************************)
(* Proofs about HttpUpload, for any bodies, any names and any disk: the    *)
(* types, that the server writes to files of its own only, that its answer *)
(* tells what it has created, and that the parts of a multipart body are   *)
(* found, however many there are and whatever they hold.                   *)
(***************************************************************************)
EXTENDS HttpUpload, SequenceTheorems, FiniteSetTheorems, WellFoundedInduction, TLAPS

Beginnings(q) == {SubSeq(q, 1, l) : l \in 0..Len(q)}

\* The first k files were created, each in an inode of its own or at least not
\* in the one that is open now.
Written(k) == /\ Len(urls) = k
              /\ \A m \in 1..k : /\ urls[m] = files[m].name
                                 /\ \E f \in mine \ {fd} : data[f] \in Beginnings(files[m].contents)

\* Before the first open nothing has been created, and the open inode is one
\* the request has created.
Untouched == mine = {} /\ fd = NoInode /\ urls = <<>> /\ fail = FALSE

Progress == /\ phase = "parse" => n = 0
            /\ phase \in {"parse", "check"} => Untouched
            /\ fd # NoInode => fd \in mine /\ n < Len(files) /\ phase = "create"
            /\ phase = "create" /\ ~fail => Written(n)
            /\ phase # "done" => code = 0
            /\ phase = "done" => code \in {201, 403, 500}
            /\ code = 403 => mine = {}
            /\ code = 201 => n = Len(files) /\ Written(n)

IInv == TypeOK /\ Progress

-----------------------------------------------------------------------------
(* Smallest and largest positions *)

LEMMA Smallest ==
    ASSUME NEW T, T \subseteq Nat, T # {}
    PROVE  LET c == CHOOSE k \in T : \A l \in T : k <= l
           IN  c \in T /\ \A l \in T : c <= l
<1>1. PICK k \in T : \A l \in T : ~(<<l, k>> \in OpToRel(<, Nat))
  BY NatLessThanWellFounded, WFMin
<1>2. \A l \in T : ~(l < k)
  BY <1>1 DEF OpToRel
<1>3. \A l \in T : k <= l
  BY <1>2, SMT
<1> QED BY <1>3

LEMMA Largest ==
    ASSUME NEW N \in Nat, NEW T, T \subseteq 0..N, T # {}
    PROVE  LET c == CHOOSE k \in T : \A l \in T : l <= k
           IN  c \in T /\ \A l \in T : l <= c
<1> DEFINE S == {N - k : k \in T}
<1>1. S \subseteq Nat /\ S # {}
  <2>1. \A k \in T : N - k \in Nat
    OBVIOUS
  <2>2. S \subseteq Nat
    BY <2>1
  <2> QED BY <2>2
<1>2. PICK s \in S : \A l \in S : s <= l
  BY <1>1, Smallest
<1>3. PICK k \in T : s = N - k
  OBVIOUS
<1>4. \A l \in T : l <= k
  <2> TAKE l \in T
  <2>1. s <= N - l
    BY <1>2
  <2> QED BY <1>3, <2>1
<1> QED BY <1>4

-----------------------------------------------------------------------------
(* Tokenizator *)

LEMMA FindRange ==
    ASSUME NEW q \in Seq(Symbol), NEW s, NEW b \in Nat
    PROVE  /\ Find(q, s, b) \in Nat /\ Find(q, s, b) <= Len(q)
           /\ b <= Len(q) => b <= Find(q, s, b)
<1> DEFINE T == {k \in b..(Len(q) - 1) : q[k + 1] = s}
<1>1. Len(q) \in Nat /\ T \subseteq Nat
  OBVIOUS
<1>2. CASE T = {}
  BY <1>1, <1>2 DEF Find
<1>3. CASE T # {}
  <2> DEFINE c == CHOOSE k \in T : \A l \in T : k <= l
  <2>1. c \in T
    BY <1>1, <1>3, Smallest
  <2>2. Find(q, s, b) = c
    BY <1>3 DEF Find
  <2> QED BY <1>1, <2>1, <2>2
<1> QED BY <1>2, <1>3

LEMMA TokenBeginRange ==
    ASSUME NEW q \in Seq(Symbol), NEW b \in Nat
    PROVE  TokenBegin(q, b) \in Nat /\ TokenBegin(q, b) <= Len(q)
<1> DEFINE T == {k \in b..(Len(q) - 1) : q[k + 1] # "B"}
<1>1. Len(q) \in Nat /\ T \subseteq Nat
  OBVIOUS
<1>2. CASE T = {}
  BY <1>1, <1>2 DEF TokenBegin
<1>3. CASE T # {}
  <2> DEFINE c == CHOOSE k \in T : \A l \in T : k <= l
  <2>1. c \in T
    BY <1>1, <1>3, Smallest
  <2>2. TokenBegin(q, b) = c
    BY <1>3 DEF TokenBegin
  <2> QED BY <1>1, <2>1, <2>2
<1> QED BY <1>2, <1>3

LEMMA PartType ==
    ASSUME NEW q \in Seq(Symbol), NEW b \in Nat, NEW e \in Nat, e <= Len(q)
    PROVE  Part(q, b, e) \in Seq(Symbol)
<1>1. CASE b + 1 <= e
  <2>1. b + 1 \in 1..(Len(q) + 1) /\ e \in 0..Len(q)
    BY <1>1
  <2> QED BY <2>1, SubSeqProperties DEF Part
<1>2. CASE ~(b + 1 <= e)
  <2>1. SubSeq(q, b + 1, e) = <<>>
    BY <1>2, SubSeqEmpty
  <2> QED BY <2>1 DEF Part
<1> QED BY <1>1, <1>2

-----------------------------------------------------------------------------
(* HandleChunk *)

LEMMA EmptyLineFound ==
    ASSUME NEW chunk \in Seq(Symbol), EmptyLines(chunk) # {}
    PROVE  HeadersEnd(chunk) \in Nat /\ LineEnds(chunk) # {}
<1>1. LineStarts(chunk) \subseteq Nat
  BY DEF LineStarts, LineEnds
<1>2. EmptyLines(chunk) \subseteq Nat
  BY <1>1 DEF EmptyLines
<1>3. HeadersEnd(chunk) \in EmptyLines(chunk)
  BY <1>2, Smallest DEF HeadersEnd
<1>4. HeadersEnd(chunk) \in LineStarts(chunk) \ {0}
  BY <1>3 DEF EmptyLines
<1> QED BY <1>2, <1>3, <1>4 DEF LineStarts

LEMMA ContentsType ==
    ASSUME NEW chunk \in Seq(Symbol), EmptyLines(chunk) # {}
    PROVE  Contents(chunk) \in Seq(Symbol)
<1> DEFINE begin == Find(chunk, "LF", HeadersEnd(chunk)) + 1
           end   == CHOOSE e \in LineEnds(chunk) : \A l \in LineEnds(chunk) : l <= e
<1>1. begin \in Nat
  BY EmptyLineFound, FindRange
<1>2. end \in LineEnds(chunk)
  <2>1. LineEnds(chunk) \subseteq 0..Len(chunk) /\ Len(chunk) \in Nat
    BY DEF LineEnds
  <2> QED BY <2>1, EmptyLineFound, Largest
<1>3. end \in Nat /\ end <= Len(chunk) /\ Len(chunk) \in Nat
  BY <1>2 DEF LineEnds
<1>4. Contents(chunk) \in {Part(chunk, begin, end), Part(chunk, begin, Len(chunk))}
  BY DEF Contents
<1> HIDE DEF begin, end
<1>5. Part(chunk, begin, end) \in Seq(Symbol)
  BY <1>1, <1>3, PartType
<1>6. Part(chunk, begin, Len(chunk)) \in Seq(Symbol)
  <2>1. Len(chunk) <= Len(chunk)
    BY <1>3
  <2> QED BY <1>1, <1>3, <2>1, PartType
<1> QED BY <1>4, <1>5, <1>6

LEMMA NameFound ==
    ASSUME NEW chunk \in Seq(Symbol), NameLines(chunk) # {}
    PROVE  Line(chunk, LastName(chunk))[1] \in Name
<1>1. LineStarts(chunk) \subseteq 0..Len(chunk) /\ Len(chunk) \in Nat
  BY DEF LineStarts, LineEnds
<1>2. NameLines(chunk) \subseteq 0..Len(chunk)
  BY <1>1 DEF NameLines
<1>3. LastName(chunk) \in NameLines(chunk)
  BY <1>1, <1>2, Largest DEF LastName
<1>4. PICK f \in Name : Line(chunk, LastName(chunk)) = <<f>>
  BY <1>3 DEF NameLines
<1> QED BY <1>4

LEMMA HandleChunkType ==
    ASSUME NEW chunk \in Seq(Symbol)
    PROVE  HandleChunk(chunk) \in Seq(File)
<1>1. CASE EmptyLines(chunk) = {} \/ NameLines(chunk) = {}
  BY <1>1 DEF HandleChunk
<1>2. CASE EmptyLines(chunk) # {} /\ NameLines(chunk) # {}
  <2> DEFINE file == [name |-> Line(chunk, LastName(chunk))[1], contents |-> Contents(chunk)]
  <2>1. file \in File
    BY <1>2, NameFound, ContentsType DEF File
  <2>2. HandleChunk(chunk) = <<file>>
    BY <1>2 DEF HandleChunk
  <2> HIDE DEF file
  <2> QED BY <2>1, <2>2
<1> QED BY <1>1, <1>2
-----------------------------------------------------------------------------
(* The invariant *)

LEMMA InitOK == Init => IInv
<1> SUFFICES ASSUME Init PROVE IInv
  OBVIOUS
<1>1. body \in Seq(Symbol) /\ Len(body) \in Nat
  BY UploadAssumption DEF Init
<1>2. PICK old \in [Name -> Inode \union {NoInode}] :
          /\ dir = old
          /\ data = [f \in Inode |-> IF \E a \in Name : old[a] = f THEN Theirs ELSE <<>>]
  BY DEF Init
<1>3. dir \in [Name -> Inode \union {NoInode}]
  BY <1>2
<1>4. data \in [Inode -> Seq(Symbol) \union {Theirs}]
  <2>1. <<>> \in Seq(Symbol)
    OBVIOUS
  <2> QED BY <1>2, <2>1
<1>5. TypeOK
  <2>1. /\ pos = 0 /\ phase = "parse" /\ files = <<>> /\ n = 0 /\ fd = NoInode
        /\ fail = FALSE /\ urls = <<>> /\ code = 0 /\ mine = {}
    BY DEF Init
  <2>2. files \in Seq(File) /\ n \in 0..Len(files) /\ urls \in Seq(Name)
    BY <2>1
  <2>3. pos \in 0..Len(body)
    BY <1>1, <2>1
  <2> QED BY <1>1, <1>3, <1>4, <2>1, <2>2, <2>3 DEF TypeOK
<1>6. Progress
  BY DEF Init, Progress, Untouched
<1> QED BY <1>5, <1>6 DEF IInv

LEMMA ParseStep == IInv /\ ParseBody => IInv'
<1> SUFFICES ASSUME IInv, ParseBody PROVE IInv'
  OBVIOUS
<1> DEFINE begin == TokenBegin(body, pos)
           end   == Find(body, "B", begin)
           chunk == Part(body, begin, end)
<1>1. body \in Seq(Symbol) /\ pos \in Nat /\ Len(body) \in Nat
  BY DEF IInv, TypeOK
<1>2. begin \in Nat /\ begin <= Len(body)
  BY <1>1, TokenBeginRange
<1>3. end \in Nat /\ end <= Len(body)
  BY <1>1, <1>2, FindRange
<1>4. HandleChunk(chunk) \in Seq(File)
  BY <1>1, <1>2, <1>3, PartType, HandleChunkType
<1>5. /\ phase = "parse" /\ UNCHANGED <<body, n, fd, fail, urls, code, dir, data, mine>>
      /\ \/ phase' = "check" /\ UNCHANGED <<pos, files>>
         \/ phase' = phase /\ pos' = end /\ files' = files \o HandleChunk(chunk)
  BY DEF ParseBody, disk
<1> HIDE DEF begin, end, chunk
<1>6. files' \in Seq(File)
  <2>1. files \in Seq(File)
    BY DEF IInv, TypeOK
  <2>2. files \o HandleChunk(chunk) \in Seq(File)
    BY <1>4, <2>1, ConcatProperties
  <2> QED BY <1>5, <2>1, <2>2
<1>7. n' = 0 /\ n' \in 0..Len(files')
  BY <1>5, <1>6 DEF IInv, Progress
<1>8. pos' \in 0..Len(body')
  BY <1>1, <1>3, <1>5 DEF IInv, TypeOK
<1>9. TypeOK'
  BY <1>5, <1>6, <1>7, <1>8 DEF IInv, TypeOK
<1>10. Progress'
  BY <1>5, <1>7 DEF IInv, Progress, Untouched
<1> QED BY <1>9, <1>10 DEF IInv

LEMMA CheckStep == IInv /\ (CheckFile \/ Checked) => IInv'
<1> SUFFICES ASSUME IInv, CheckFile \/ Checked PROVE IInv'
  OBVIOUS
<1>1. /\ phase = "check" /\ UNCHANGED <<body, pos, files, fd, fail, urls, dir, data, mine>>
      /\ \/ n < Len(files) /\ code' = 403 /\ phase' = "done" /\ n' = n
         \/ n < Len(files) /\ code' = code /\ phase' = phase /\ n' = n + 1
         \/ code' = code /\ phase' = "create" /\ n' = 0
  BY DEF CheckFile, Checked, Answered, disk
<1>2. files \in Seq(File) /\ n \in 0..Len(files) /\ Len(files) \in Nat
  BY DEF IInv, TypeOK
<1>3. n' \in 0..Len(files)
  BY <1>1, <1>2
<1>4. TypeOK'
  BY <1>1, <1>3 DEF IInv, TypeOK
<1>5. mine' = {} /\ fd' = NoInode /\ urls' = <<>> /\ fail' = FALSE /\ code = 0
  BY <1>1 DEF IInv, Progress, Untouched
<1>6. Written(0)'
  BY <1>5 DEF Written
<1>7. Progress'
  <2>1. CASE phase' = "create"
    BY <1>1, <1>5, <1>6, <2>1 DEF Progress
  <2>2. CASE phase' # "create"
    BY <1>1, <1>5, <2>2 DEF Progress, Untouched
  <2> QED BY <2>1, <2>2
<1> QED BY <1>4, <1>7 DEF IInv

LEMMA OpenStep == IInv /\ OpenFile => IInv'
<1> SUFFICES ASSUME IInv, OpenFile PROVE IInv'
  OBVIOUS
<1>1. /\ phase = "create" /\ n < Len(files) /\ fd = NoInode /\ code = 0
      /\ UNCHANGED <<body, pos, phase, files, urls, code, data>>
      /\ files \in Seq(File) /\ n \in 0..Len(files) /\ Len(files) \in Nat
  BY DEF OpenFile, disk, IInv, TypeOK, Progress
<1>2. CASE fail' = TRUE /\ n' = n + 1 /\ UNCHANGED <<fd, disk>>
  <2>1. n' \in 0..Len(files) /\ UNCHANGED <<fd, dir, mine>>
    BY <1>1, <1>2 DEF disk
  <2>2. TypeOK'
    BY <1>1, <1>2, <2>1 DEF IInv, TypeOK
  <2>3. Progress'
    BY <1>1, <1>2, <2>1 DEF IInv, Progress
  <2> QED BY <2>2, <2>3 DEF IInv
<1>3. ASSUME NEW f \in Inode \ InUse,
             fd' = f, dir' = [dir EXCEPT ![This.name] = f], mine' = mine \union {f},
             UNCHANGED <<data, fail, n>>
      PROVE  IInv'
  <2>1. f \in Inode /\ f \notin mine /\ f # NoInode
    BY <1>3, UploadAssumption DEF InUse
  <2>2. TypeOK'
    <3>1. dir' \in [Name -> Inode \union {NoInode}]
      <4>1. dir \in [Name -> Inode \union {NoInode}]
        BY DEF IInv, TypeOK
      <4> QED BY <1>3, <2>1, <4>1
    <3>2. fd' \in Inode \union {NoInode} /\ mine' \in SUBSET Inode
      BY <1>3, <2>1 DEF IInv, TypeOK
    <3> QED BY <1>1, <1>3, <3>1, <3>2 DEF IInv, TypeOK
  <2>3. ASSUME Written(n) PROVE Written(n)'
    BY <1>1, <1>3, <2>1, <2>3 DEF Written
  <2>4. Progress'
    BY <1>1, <1>3, <2>1, <2>3 DEF IInv, Progress
  <2> QED BY <2>2, <2>4 DEF IInv
<1> QED BY <1>2, <1>3 DEF OpenFile

LEMMA WriteStep == IInv /\ WriteFile => IInv'
<1> SUFFICES ASSUME IInv, WriteFile PROVE IInv'
  OBVIOUS
<1>1. /\ phase = "create" /\ fd # NoInode /\ fd \in mine /\ n < Len(files) /\ code = 0
      /\ n' = n + 1 /\ fd' = NoInode /\ urls' = Append(urls, This.name)
      /\ UNCHANGED <<body, pos, phase, files, fail, code, dir, mine>>
      /\ files \in Seq(File) /\ n \in 0..Len(files) /\ Len(files) \in Nat
      /\ mine \subseteq Inode /\ urls \in Seq(Name)
      /\ data \in [Inode -> Seq(Symbol) \union {Theirs}]
  BY DEF WriteFile, IInv, TypeOK, Progress
<1>2. This = files[n + 1] /\ This \in File /\ n + 1 \in 1..Len(files)
  BY <1>1 DEF This
<1>3. This.name \in Name /\ This.contents \in Seq(Symbol) /\ Len(This.contents) \in Nat
  BY <1>2 DEF File
<1>4. PICK k \in 0..Len(This.contents) : data' = [data EXCEPT ![fd] = SubSeq(This.contents, 1, k)]
  BY DEF WriteFile
<1>5. SubSeq(This.contents, 1, k) \in Seq(Symbol)
  BY <1>3
<1>6. NoInode \notin mine
  BY <1>1, UploadAssumption
<1>7. TypeOK'
  <2>1. data' \in [Inode -> Seq(Symbol) \union {Theirs}]
    BY <1>1, <1>4, <1>5
  <2>2. urls' \in Seq(Name) /\ n' \in 0..Len(files')
    BY <1>1, <1>3
  <2> QED BY <1>1, <2>1, <2>2 DEF IInv, TypeOK
<1>8. ASSUME Written(n) PROVE Written(n)'
  <2>1. Len(urls) = n /\ Len(urls') = n + 1 /\ urls'[n + 1] = This.name
        /\ \A m \in 1..n : urls'[m] = urls[m]
    BY <1>1, <1>3, <1>8 DEF Written
  <2>2. ASSUME NEW m \in 1..n
        PROVE  \E f \in mine \ {NoInode} : data'[f] \in Beginnings(files[m].contents)
    <3>1. PICK f \in mine \ {fd} : data[f] \in Beginnings(files[m].contents)
      BY <1>8 DEF Written
    <3>2. data'[f] = data[f]
      BY <1>1, <1>4, <3>1
    <3> QED BY <1>6, <3>1, <3>2
  <2>3. data'[fd] \in Beginnings(files[n + 1].contents) /\ fd \in mine \ {NoInode}
    BY <1>1, <1>2, <1>4 DEF Beginnings
  <2>4. \A m \in 1..(n + 1) : m \in 1..n \/ m = n + 1
    BY <1>1
  <2>5. ASSUME NEW m \in 1..(n + 1)
        PROVE  /\ urls'[m] = files[m].name
               /\ \E f \in mine \ {NoInode} : data'[f] \in Beginnings(files[m].contents)
    <3>1. CASE m \in 1..n
      BY <1>8, <2>1, <2>2, <3>1 DEF Written
    <3>2. CASE m = n + 1
      BY <1>2, <2>1, <2>3, <3>2
    <3> QED BY <2>4, <3>1, <3>2
  <2> QED BY <1>1, <2>1, <2>5 DEF Written
<1>9. ~fail => Written(n)
  BY <1>1 DEF IInv, Progress
<1>10. Progress'
  BY <1>1, <1>8, <1>9 DEF Progress
<1> QED BY <1>7, <1>10 DEF IInv

LEMMA FinishStep == IInv /\ Finish => IInv'
<1> SUFFICES ASSUME IInv, Finish PROVE IInv'
  OBVIOUS
<1>1. /\ phase = "create" /\ n = Len(files) /\ phase' = "done"
      /\ code' = IF fail THEN 500 ELSE 201
      /\ UNCHANGED <<body, pos, files, n, fd, fail, urls, dir, data, mine>>
      /\ fail \in BOOLEAN /\ n \in Nat /\ Len(files) \in Nat
  BY DEF Finish, Answered, disk, IInv, TypeOK
<1>2. TypeOK'
  BY <1>1 DEF IInv, TypeOK
<1>3. fd = NoInode
  BY <1>1 DEF IInv, Progress
<1>4. Written(n) => Written(n)'
  BY <1>1 DEF Written
<1>5. Progress'
  BY <1>1, <1>3, <1>4 DEF IInv, Progress
<1> QED BY <1>2, <1>5 DEF IInv

\* Other processes put their contents only in inodes that are free.
LEMMA OthersStep == IInv /\ Others => IInv'
<1> SUFFICES ASSUME IInv, Others PROVE IInv'
  OBVIOUS
<1> DEFINE Respected == /\ dir' \in [Name -> Inode \union {NoInode}]
                        /\ data' \in [Inode -> Seq(Symbol) \union {Theirs}]
                        /\ \A f \in mine : data'[f] = data[f]
<1>0. /\ dir \in [Name -> Inode \union {NoInode}]
      /\ data \in [Inode -> Seq(Symbol) \union {Theirs}] /\ mine \subseteq Inode
  BY DEF IInv, TypeOK
<1>1. /\ UNCHANGED <<body, pos, phase, files, n, fd, fail, urls, code, mine>>
      /\ Respected
  <2>1. ASSUME NEW a \in Name, Create(a)
        PROVE  UNCHANGED <<body, pos, phase, files, n, fd, fail, urls, code, mine>> /\ Respected
    <3>1. PICK f \in Inode \ InUse : /\ dir' = [dir EXCEPT ![a] = f]
                                    /\ data' = [data EXCEPT ![f] = Theirs]
                                    /\ UNCHANGED <<request, mine>>
      BY <2>1 DEF Create
    <3>2. f \in Inode /\ f \notin mine
      BY DEF InUse
    <3> QED BY <1>0, <3>1, <3>2 DEF request
  <2>2. ASSUME NEW a \in Name, Remove(a)
        PROVE  UNCHANGED <<body, pos, phase, files, n, fd, fail, urls, code, mine>> /\ Respected
    BY <1>0, <2>2 DEF Remove, request
  <2>3. ASSUME NEW a \in Name, NEW b \in Name, Rename(a, b)
        PROVE  UNCHANGED <<body, pos, phase, files, n, fd, fail, urls, code, mine>> /\ Respected
    <3>1. /\ dir' = [dir EXCEPT ![b] = dir[a], ![a] = NoInode]
          /\ UNCHANGED <<request, data, mine>>
      BY <2>3 DEF Rename
    <3>2. dir' \in [Name -> Inode \union {NoInode}]
      BY <1>0, <3>1
    <3> QED BY <1>0, <3>1, <3>2 DEF request
  <2> HIDE DEF Respected
  <2>4. PICK a \in Name : Create(a) \/ Remove(a) \/ \E b \in Name : Rename(a, b)
    BY DEF Others
  <2> QED BY <2>1, <2>2, <2>3, <2>4
<1>2. TypeOK'
  BY <1>1 DEF IInv, TypeOK
<1>3. Written(n) => Written(n)'
  BY <1>1 DEF Written
<1>4. Progress'
  BY <1>1, <1>3 DEF IInv, Progress, Untouched
<1> QED BY <1>2, <1>4 DEF IInv

-----------------------------------------------------------------------------
(* The theorems *)

\* The invariant of uploads: the types, and what has been created so far.
THEOREM UploadInvariant == Spec => []IInv
<1>1. IInv /\ [Next]_vars => IInv'
  <2> SUFFICES ASSUME IInv, [Next]_vars PROVE IInv'
    OBVIOUS
  <2>1. CASE ParseBody
    BY <2>1, ParseStep
  <2>2. CASE CheckFile \/ Checked
    BY <2>2, CheckStep
  <2>3. CASE OpenFile
    BY <2>3, OpenStep
  <2>4. CASE WriteFile
    BY <2>4, WriteStep
  <2>5. CASE Finish
    BY <2>5, FinishStep
  <2>6. CASE Others
    BY <2>6, OthersStep
  <2>7. CASE UNCHANGED vars
    <3>1. TypeOK'
      BY <2>7 DEF IInv, TypeOK, vars, request, disk
    <3>2. Written(n) => Written(n)'
      BY <2>7 DEF Written, vars, request, disk
    <3>3. Progress'
      BY <2>7, <3>2 DEF IInv, Progress, Untouched, vars, request, disk
    <3> QED BY <3>1, <3>3 DEF IInv
  <2> QED BY <2>1, <2>2, <2>3, <2>4, <2>5, <2>6, <2>7 DEF Next, Server
<1> QED BY InitOK, <1>1, PTL DEF Spec

\* Every variable of an upload keeps its type, whatever the body.
THEOREM UploadTypeCorrect == Spec => []TypeOK
<1>1. IInv => TypeOK
  BY DEF IInv
<1> QED BY UploadInvariant, <1>1, PTL

\* The server writes to inodes it has created only, whatever other processes
\* do to the directory between two of its system calls.
THEOREM NoForeignWrite == Spec => WritesOwnFiles
<1> DEFINE Own == \A f \in Inode : data'[f] # data[f] /\ data'[f] # Theirs => f \in mine
<1>1. IInv /\ [Next]_vars => [Own]_vars
  <2> SUFFICES ASSUME IInv, Next PROVE Own
    OBVIOUS
  <2>1. data \in [Inode -> Seq(Symbol) \union {Theirs}] /\ (fd # NoInode => fd \in mine)
    BY DEF IInv, TypeOK, Progress
  <2>2. CASE WriteFile
    BY <2>1, <2>2 DEF WriteFile
  <2>3. CASE Others
    <3>1. ASSUME NEW a \in Name, Create(a) PROVE Own
      BY <2>1, <3>1 DEF Create
    <3>2. ASSUME NEW a \in Name, Remove(a) \/ \E b \in Name : Rename(a, b) PROVE Own
      BY <3>2 DEF Remove, Rename
    <3> QED BY <2>3, <3>1, <3>2 DEF Others
  <2>4. CASE ParseBody \/ CheckFile \/ Checked \/ OpenFile \/ Finish
    BY <2>4 DEF ParseBody, CheckFile, Checked, OpenFile, Finish, disk
  <2> QED BY <2>2, <2>3, <2>4 DEF Next, Server
<1> QED BY UploadInvariant, <1>1, PTL DEF Spec, WritesOwnFiles

\* A 201 response lists the files of the request, all of which it created.
THEOREM AllCreated == Spec => []CreatedAll
<1>1. IInv => CreatedAll
  <2> SUFFICES ASSUME IInv, code = 201 PROVE CreatedAll
    BY DEF CreatedAll
  <2>1. n = Len(files) /\ Written(n) /\ files \in Seq(File) /\ urls \in Seq(Name)
    BY DEF IInv, Progress, TypeOK
  <2>2. DOMAIN urls = 1..n /\ DOMAIN files = 1..n
    BY <2>1 DEF Written
  <2> QED BY <2>1, <2>2 DEF Written, CreatedAll, Beginnings
<1> QED BY UploadInvariant, <1>1, PTL

LEMMA FirstOfFour ==
    ASSUME NEW a, NEW b, NEW c, NEW d, d.when
    PROVE  FirstMatch(<<a, b, c, d>>) = IF a.when THEN a.then ELSE IF b.when THEN b.then
                                        ELSE IF c.when THEN c.then ELSE d.then
<1> DEFINE rules == <<a, b, c, d>>
           k == IF a.when THEN 1 ELSE IF b.when THEN 2 ELSE IF c.when THEN 3 ELSE 4
           First(m) == m \in DOMAIN rules /\ rules[m].when
                       /\ \A j \in DOMAIN rules : j < m => ~rules[j].when
<1>1. /\ DOMAIN rules = 1..4
      /\ rules[1] = a /\ rules[2] = b /\ rules[3] = c /\ rules[4] = d
  OBVIOUS
<1> HIDE DEF rules
<1>2. rules[k].when /\ k \in 1..4 /\ \A j \in 1..4 : j < k => ~rules[j].when
  BY <1>1
<1>3. \A m : First(m) => m = k
  <2> HIDE DEF k
  <2> QED BY <1>1, <1>2
<1> HIDE DEF k
<1>4. (CHOOSE m \in DOMAIN rules : /\ rules[m].when
                                   /\ \A j \in DOMAIN rules : j < m => ~rules[j].when) = k
  BY <1>1, <1>2, <1>3
<1>5. FirstMatch(rules) = rules[k].then
  BY <1>4 DEF FirstMatch
<1> QED BY <1>1, <1>5 DEF rules, k

\* What HttpDispatch says of an upload with a boundary.
LEMMA Dispatched ==
    /\ HandleUploadRequest([form |-> "bounded", store |-> "clash"]) = Fail(403)
    /\ HandleUploadRequest([form |-> "bounded", store |-> "fail"]) = Answer("error", 500, "create")
    /\ HandleUploadRequest([form |-> "bounded", store |-> "ok"]) = Answer("respond", 201, "create")
<1>1. ASSUME NEW q
      PROVE  HandleUploadRequest(q) =
                 IF q.form = "bare" THEN Fail(400) ELSE IF q.store = "clash" THEN Fail(403)
                 ELSE IF q.store = "fail" THEN Answer("error", 500, "create")
                 ELSE Answer("respond", 201, "create")
  <2> DEFINE a == If(q.form = "bare", Fail(400))
             b == If(q.store = "clash", Fail(403))
             c == If(q.store = "fail", Answer("error", 500, "create"))
             d == If(TRUE, Answer("respond", 201, "create"))
  <2>1. /\ (a.when <=> q.form = "bare") /\ a.then = Fail(400)
        /\ (b.when <=> q.store = "clash") /\ b.then = Fail(403)
        /\ (c.when <=> q.store = "fail") /\ c.then = Answer("error", 500, "create")
        /\ d.when /\ d.then = Answer("respond", 201, "create")
    BY DEF If
  <2>2. HandleUploadRequest(q) = FirstMatch(<<a, b, c, d>>)
    BY DEF HandleUploadRequest
  <2> HIDE DEF a, b, c, d
  <2>3. HandleUploadRequest(q) = IF a.when THEN a.then ELSE IF b.when THEN b.then
                                 ELSE IF c.when THEN c.then ELSE d.then
    BY <2>1, <2>2, FirstOfFour
  <2> QED BY <2>1, <2>3
<1> QED BY <1>1

\* The answer is one that HttpDispatch gives, and a refused request has created
\* nothing.
THEOREM UploadAnswers == Spec => []AnswersAsDispatched
<1>1. IInv => AnswersAsDispatched
  <2> SUFFICES ASSUME IInv, phase = "done" PROVE AnswersAsDispatched
    BY DEF AnswersAsDispatched
  <2>1. code \in {201, 403, 500} /\ (code = 403 => mine = {})
    BY DEF IInv, Progress
  <2>2. CASE code = 403
    BY <2>1, <2>2, Dispatched DEF AnswersAsDispatched, Fail, Answer
  <2>3. CASE code = 500
    BY <2>3, Dispatched DEF AnswersAsDispatched, Answer
  <2>4. CASE code = 201
    BY <2>4, Dispatched DEF AnswersAsDispatched, Answer
  <2> QED BY <2>1, <2>2, <2>3, <2>4
<1> QED BY UploadInvariant, <1>1, PTL
-----------------------------------------------------------------------------
(* The parts of a body *)

LEMMA FindIs ==
    ASSUME NEW q \in Seq(Symbol), NEW s, NEW b \in Nat, NEW j \in Nat,
           b <= j, j < Len(q), q[j + 1] = s, \A i \in Nat : b <= i /\ i < j => q[i + 1] # s
    PROVE  Find(q, s, b) = j
<1> DEFINE T == {k \in b..(Len(q) - 1) : q[k + 1] = s}
           c == CHOOSE k \in T : \A l \in T : k <= l
<1>1. T \subseteq Nat /\ j \in T
  OBVIOUS
<1>2. c \in T /\ \A l \in T : c <= l
  BY <1>1, Smallest
<1>3. \A i \in T : ~(i < j)
  OBVIOUS
<1>4. c = j
  <2> HIDE DEF c
  <2>1. c <= j /\ ~(c < j) /\ c \in Nat
    BY <1>1, <1>2, <1>3
  <2> QED BY <2>1
<1>5. Find(q, s, b) = c
  BY <1>1 DEF Find
<1> QED BY <1>4, <1>5

LEMMA FindNone ==
    ASSUME NEW q \in Seq(Symbol), NEW s, NEW b \in Nat,
           \A i \in Nat : b <= i /\ i < Len(q) => q[i + 1] # s
    PROVE  Find(q, s, b) = Len(q)
<1>1. {k \in b..(Len(q) - 1) : q[k + 1] = s} = {}
  OBVIOUS
<1> QED BY <1>1 DEF Find

LEMMA TokenBeginIs ==
    ASSUME NEW q \in Seq(Symbol), NEW b \in Nat, b + 1 < Len(q), q[b + 1] = "B", q[b + 2] # "B"
    PROVE  TokenBegin(q, b) = b + 1
<1> DEFINE T == {k \in b..(Len(q) - 1) : q[k + 1] # "B"}
           c == CHOOSE k \in T : \A l \in T : k <= l
<1>0. (b + 1) + 1 = b + 2
  OBVIOUS
<1>1. T \subseteq Nat /\ b + 1 \in T /\ b \notin T
  BY <1>0
<1>2. c \in T /\ \A l \in T : c <= l
  BY <1>1, Smallest
<1>3. c = b + 1
  <2> HIDE DEF c
  <2>1. c <= b + 1 /\ c \in b..(Len(q) - 1) /\ c # b /\ Len(q) \in Nat
    BY <1>1, <1>2
  <2> QED BY <2>1
<1>4. TokenBegin(q, b) = c
  BY <1>1 DEF TokenBegin
<1> QED BY <1>3, <1>4

LEMMA OneOf ==
    ASSUME NEW q \in Seq(Symbol), NEW k \in 1..Len(q)
    PROVE  SubSeq(q, k, k) = <<q[k]>>
<1>1. k \in 1..(Len(q) + 1) /\ k \in 0..Len(q)
  OBVIOUS
<1>2. /\ SubSeq(q, k, k) \in Seq(Symbol)
      /\ Len(SubSeq(q, k, k)) = (IF k <= k THEN k - k + 1 ELSE 0)
      /\ \A i \in 1..(k - k + 1) : SubSeq(q, k, k)[i] = q[k + i - 1]
  BY <1>1, SubSeqProperties
<1>3. Len(SubSeq(q, k, k)) = 1 /\ SubSeq(q, k, k)[1] = q[k]
  BY <1>2
<1>4. q[k] \in Symbol
  OBVIOUS
<1> DEFINE one == <<q[k]>>
<1>5. one \in Seq(Symbol) /\ Len(one) = 1 /\ one[1] = q[k]
  BY <1>4
<1> HIDE DEF one
<1>6. SubSeq(q, k, k) = one
  <2>1. \A i \in 1..1 : SubSeq(q, k, k)[i] = one[i]
    BY <1>3, <1>5
  <2> QED BY <1>2, <1>3, <1>5, <2>1, SeqEqual
<1> QED BY <1>6 DEF one

LEMMA NotAName == \A f \in Name \union {"x"} : f # "LF" /\ f # "CR" /\ f # "B" /\ f # "--"
  BY UploadAssumption

\* The chunk of a part whose lines end with e.
Chunk(q, e) == LET m == Len(e) IN
    /\ 4 * m + 1 <= Len(q)
    /\ \A j \in 1..m : /\ q[j] = e[j] /\ q[m + 1 + j] = e[j] /\ q[2 * m + 1 + j] = e[j]
                       /\ q[Len(q) - m + j] = e[j]
    /\ q[m + 1] \in Name \union {"x"}

\* The headers end where the empty line is, and what comes after it up to the
\* last LF are the contents.
LEMMA ChunkHeaders ==
    ASSUME NEW q \in Seq(Symbol), NEW m \in {1, 2}, 4 * m + 1 <= Len(q),
           \A b \in Nat : b \in LineStarts(q) /\ b < 2 * m + 1 => b = 0 \/ b = m,
           m \in LineStarts(q), 2 * m + 1 \in LineStarts(q),
           Line(q, 0) = <<>>, Line(q, m) = <<q[m + 1]>>, Line(q, 2 * m + 1) = <<>>,
           Find(q, "LF", 2 * m + 1) = 3 * m, q[Len(q)] = "LF", q[m + 1] \in Name \union {"x"}
    PROVE  HandleChunk(q) =
              IF q[m + 1] \in Name
              THEN <<[name |-> q[m + 1], contents |-> SubSeq(q, 3 * m + 2, Len(q) - 1)]>>
              ELSE <<>>
<1>0. /\ Len(q) \in Nat /\ m \in Nat /\ 2 * m + 1 \in Nat /\ m # 0 /\ 2 * m + 1 # 0
      /\ m < 2 * m + 1 /\ 2 * m + 1 < Len(q) /\ m + 1 \in 1..Len(q)
  OBVIOUS
<1>1. LineStarts(q) \subseteq Nat
  BY DEF LineStarts, LineEnds
<1>2. EmptyLines(q) \subseteq Nat /\ 2 * m + 1 \in EmptyLines(q)
  BY <1>0, <1>1 DEF EmptyLines
<1>3. \A b \in EmptyLines(q) : ~(b < 2 * m + 1)
  <2> SUFFICES ASSUME NEW b \in EmptyLines(q), b < 2 * m + 1 PROVE FALSE
    OBVIOUS
  <2>1. b \in LineStarts(q) /\ b # 0 /\ Line(q, b) = <<>> /\ b \in Nat
    BY <1>2 DEF EmptyLines
  <2>2. b = m
    BY <2>1
  <2>3. <<q[m + 1]>> = <<>>
    BY <2>1, <2>2
  <2> QED BY <2>3
<1>4. HeadersEnd(q) = 2 * m + 1
  <2>1. HeadersEnd(q) \in EmptyLines(q) /\ \A c \in EmptyLines(q) : HeadersEnd(q) <= c
    BY <1>2, Smallest DEF HeadersEnd
  <2>2. HeadersEnd(q) \in Nat /\ HeadersEnd(q) <= 2 * m + 1 /\ ~(HeadersEnd(q) < 2 * m + 1)
    BY <1>2, <1>3, <2>1
  <2> QED BY <1>0, <2>2
<1>5. \A b \in NameLines(q) : b = m
  <2> SUFFICES ASSUME NEW b \in NameLines(q) PROVE b = m
    OBVIOUS
  <2>1. /\ b \in LineStarts(q) /\ b \in Nat /\ b < 2 * m + 1
        /\ \E f \in Name : Line(q, b) = <<f>>
    BY <1>1, <1>4 DEF NameLines
  <2>2. b # 0
    <3>1. PICK f \in Name : Line(q, b) = <<f>>
      BY <2>1
    <3>2. <<f>> # <<>>
      OBVIOUS
    <3> QED BY <3>1, <3>2
  <2> QED BY <2>1, <2>2
<1>6. m \in NameLines(q) <=> q[m + 1] \in Name
  <2>1. m \in NameLines(q) <=> \E f \in Name : <<q[m + 1]>> = <<f>>
    BY <1>0, <1>4 DEF NameLines
  <2> QED BY <2>1
<1>7. CASE q[m + 1] \notin Name
  <2>1. NameLines(q) = {}
    BY <1>5, <1>6, <1>7
  <2> QED BY <1>2, <1>7, <2>1 DEF HandleChunk
<1>8. CASE q[m + 1] \in Name
  <2>1. NameLines(q) = {m}
    BY <1>5, <1>6, <1>8
  <2>2. LastName(q) = m
    BY <2>1, <1>0 DEF LastName
  <2>3. Contents(q) = SubSeq(q, 3 * m + 2, Len(q) - 1)
    <3> DEFINE end == CHOOSE e \in LineEnds(q) : \A l \in LineEnds(q) : l <= e
    <3>1. LineEnds(q) \subseteq 0..(Len(q) - 1) /\ Len(q) - 1 \in LineEnds(q) /\ Len(q) - 1 \in Nat
      <4>1. (Len(q) - 1) + 1 = Len(q) /\ Len(q) - 1 \in 0..(Len(q) - 1)
        BY <1>0
      <4> QED BY <4>1 DEF LineEnds
    <3>2. end \in LineEnds(q) /\ \A l \in LineEnds(q) : l <= end
      BY <3>1, Largest
    <3>3. end = Len(q) - 1
      <4> HIDE DEF end
      <4> QED BY <1>0, <3>1, <3>2
    <3>4. /\ Find(q, "LF", HeadersEnd(q)) + 1 = 3 * m + 1
          /\ Len(q) - 1 >= 3 * m + 1 /\ (3 * m + 1) + 1 = 3 * m + 2
      BY <1>0, <1>4
    <3> HIDE DEF end
    <3>5. Contents(q) = IF end >= 3 * m + 1 THEN Part(q, 3 * m + 1, end)
                        ELSE Part(q, 3 * m + 1, Len(q))
      BY <3>4 DEF Contents, end
    <3> QED BY <3>3, <3>4, <3>5 DEF Part
  <2>4. EmptyLines(q) # {} /\ NameLines(q) # {}
    BY <1>2, <2>1
  <2>5. Line(q, m)[1] = q[m + 1]
    OBVIOUS
  <2> QED BY <1>8, <2>2, <2>3, <2>4, <2>5 DEF HandleChunk
<1> QED BY <1>7, <1>8

LEMMA StartsAre ==
    ASSUME NEW q \in Seq(Symbol), NEW b \in Nat
    PROVE  b \in LineStarts(q) <=> b = 0 \/ (b \in 1..Len(q) /\ q[b] = "LF")
<1>1. b \in LineStarts(q) <=> b = 0 \/ \E k \in 0..(Len(q) - 1) : q[k + 1] = "LF" /\ b = k + 1
  BY DEF LineStarts, LineEnds
<1>2. (b \in 1..Len(q) /\ q[b] = "LF") => b - 1 \in 0..(Len(q) - 1) /\ (b - 1) + 1 = b
  OBVIOUS
<1> QED BY <1>1, <1>2

LEMMA PlainChunk ==
    ASSUME NEW q \in Seq(Symbol), Chunk(q, <<"LF">>)
    PROVE  HandleChunk(q) = IF q[2] \in Name
                            THEN <<[name |-> q[2], contents |-> SubSeq(q, 5, Len(q) - 1)]>>
                            ELSE <<>>
<1>1. /\ Len(q) \in Nat /\ 5 <= Len(q)
      /\ q[1] = "LF" /\ q[2] \in Name \union {"x"} /\ q[3] = "LF" /\ q[4] = "LF" /\ q[Len(q)] = "LF"
  BY DEF Chunk
<1>2. q[2] # "LF" /\ q[2] # "CR"
  BY <1>1, NotAName
<1>3. \A b \in Nat : b \in LineStarts(q) /\ b < 3 => b = 0 \/ b = 1
  BY <1>1, <1>2, StartsAre
<1>4. 1 \in LineStarts(q) /\ 3 \in LineStarts(q)
  BY <1>1, StartsAre
<1>5. Line(q, 0) = <<>>
  <2>1. Find(q, "LF", 0) = 0
    <3>1. q[0 + 1] = "LF"
      BY <1>1
    <3> QED BY <1>1, <3>1, FindIs
  <2> QED BY <1>1, <2>1 DEF Line, Part
<1>6. Line(q, 1) = <<q[2]>>
  <2>1. \A i \in Nat : 1 <= i /\ i < 2 => q[i + 1] # "LF"
    BY <1>2
  <2>2. q[2 + 1] = "LF" /\ ~(2 > 1 /\ q[2] = "CR")
    BY <1>1, <1>2
  <2>5. Find(q, "LF", 1) = 2
    BY <1>1, <2>1, <2>2, FindIs
  <2>3. Line(q, 1) = SubSeq(q, 2, 2)
    BY <1>1, <2>2, <2>5 DEF Line, Part
  <2>4. SubSeq(q, 2, 2) = <<q[2]>>
    BY <1>1, OneOf
  <2> QED BY <2>3, <2>4
<1>7. Line(q, 3) = <<>>
  <2>1. q[3 + 1] = "LF"
    BY <1>1
  <2>2. Find(q, "LF", 3) = 3
    BY <1>1, <2>1, FindIs
  <2> QED BY <1>1, <2>2 DEF Line, Part
<1>8. Find(q, "LF", 3) = 3
  <2>1. q[3 + 1] = "LF"
    BY <1>1
  <2> QED BY <1>1, <2>1, FindIs
<1>9. /\ 2 * 1 + 1 = 3 /\ 1 + 1 = 2 /\ 3 * 1 = 3 /\ 3 * 1 + 2 = 5 /\ 4 * 1 + 1 = 5
      /\ 1 \in {1, 2}
  OBVIOUS
<1> QED BY <1>1, <1>3, <1>4, <1>5, <1>6, <1>7, <1>8, <1>9, ChunkHeaders

LEMMA CarriageChunk ==
    ASSUME NEW q \in Seq(Symbol), Chunk(q, <<"CR", "LF">>)
    PROVE  HandleChunk(q) = IF q[3] \in Name
                            THEN <<[name |-> q[3], contents |-> SubSeq(q, 8, Len(q) - 1)]>>
                            ELSE <<>>
<1>1. /\ Len(q) \in Nat /\ 9 <= Len(q)
      /\ q[1] = "CR" /\ q[2] = "LF" /\ q[3] \in Name \union {"x"} /\ q[4] = "CR" /\ q[5] = "LF"
      /\ q[6] = "CR" /\ q[7] = "LF" /\ q[Len(q)] = "LF"
  <2> DEFINE e == <<"CR", "LF">>
  <2>1. Len(e) = 2 /\ e[1] = "CR" /\ e[2] = "LF" /\ 1 \in 1..2 /\ 2 \in 1..2
    OBVIOUS
  <2> HIDE DEF e
  <2>2. /\ 4 * 2 + 1 <= Len(q) /\ q[2 + 1] \in Name \union {"x"}
        /\ \A j \in 1..2 : /\ q[j] = e[j] /\ q[2 + 1 + j] = e[j] /\ q[2 * 2 + 1 + j] = e[j]
                           /\ q[Len(q) - 2 + j] = e[j]
    BY <2>1 DEF Chunk, e
  <2>3. /\ q[1] = e[1] /\ q[2 + 1 + 1] = e[1] /\ q[2 * 2 + 1 + 1] = e[1]
        /\ q[2] = e[2] /\ q[2 + 1 + 2] = e[2] /\ q[2 * 2 + 1 + 2] = e[2] /\ q[Len(q) - 2 + 2] = e[2]
    BY <2>1, <2>2
  <2> QED BY <2>1, <2>2, <2>3
<1>2. q[3] # "LF" /\ q[3] # "CR"
  BY <1>1, NotAName
<1>3. \A b \in Nat : b \in LineStarts(q) /\ b < 5 => b = 0 \/ b = 2
  <2> TAKE b \in Nat
  <2> HAVE b \in LineStarts(q) /\ b < 5
  <2>1. b = 0 \/ b = 1 \/ b = 2 \/ b = 3 \/ b = 4
    OBVIOUS
  <2>2. b = 0 \/ q[b] = "LF"
    BY StartsAre
  <2> QED BY <1>1, <1>2, <2>1, <2>2
<1>4. 2 \in LineStarts(q) /\ 5 \in LineStarts(q)
  BY <1>1, StartsAre
<1>5. Line(q, 0) = <<>>
  <2>1. \A i \in Nat : 0 <= i /\ i < 1 => q[i + 1] # "LF"
    BY <1>1
  <2>2. q[1 + 1] = "LF" /\ 1 > 0 /\ q[1] = "CR"
    BY <1>1
  <2>3. Find(q, "LF", 0) = 1
    BY <1>1, <2>1, <2>2, FindIs
  <2>4. Line(q, 0) = Part(q, 0, 1 - 1)
    BY <1>1, <2>2, <2>3 DEF Line
  <2>5. 1 - 1 = 0 /\ 0 + 1 = 1
    OBVIOUS
  <2> QED BY <2>4, <2>5 DEF Part
<1>6. Line(q, 2) = <<q[3]>>
  <2>1. \A i \in Nat : 2 <= i /\ i < 4 => q[i + 1] # "LF"
    <3> TAKE i \in Nat
    <3> HAVE 2 <= i /\ i < 4
    <3>1. i = 2 \/ i = 3
      OBVIOUS
    <3>2. q[2 + 1] # "LF" /\ q[3 + 1] # "LF"
      BY <1>1, <1>2
    <3> QED BY <3>1, <3>2
  <2>2. q[4 + 1] = "LF" /\ 4 > 2 /\ q[4] = "CR"
    BY <1>1
  <2>5. Find(q, "LF", 2) = 4
    BY <1>1, <2>1, <2>2, FindIs
  <2>3. Line(q, 2) = SubSeq(q, 3, 3)
    <3>1. Line(q, 2) = Part(q, 2, 4 - 1)
      BY <1>1, <2>2, <2>5 DEF Line
    <3>2. 4 - 1 = 3 /\ 2 + 1 = 3
      OBVIOUS
    <3> QED BY <3>1, <3>2 DEF Part
  <2>4. SubSeq(q, 3, 3) = <<q[3]>>
    BY <1>1, OneOf
  <2> QED BY <2>3, <2>4
<1>7. \A i \in Nat : 5 <= i /\ i < 6 => q[i + 1] # "LF"
  BY <1>1
<1>9. Find(q, "LF", 5) = 6
  <2>1. q[6 + 1] = "LF"
    BY <1>1
  <2> QED BY <1>1, <1>7, <2>1, FindIs
<1>8. Line(q, 5) = <<>>
  BY <1>1, <1>9 DEF Line, Part
<1>10. /\ 2 * 2 + 1 = 5 /\ 2 + 1 = 3 /\ 3 * 2 = 6 /\ 3 * 2 + 2 = 8 /\ 4 * 2 + 1 = 9
       /\ 2 \in {1, 2}
  OBVIOUS
<1> QED BY <1>1, <1>3, <1>4, <1>5, <1>6, <1>8, <1>9, <1>10, ChunkHeaders

LEMMA Cut ==
    ASSUME NEW q \in Seq(Symbol), NEW a \in Nat, NEW b \in Nat, 1 <= a, a <= b + 1, b <= Len(q)
    PROVE  /\ SubSeq(q, a, b) \in Seq(Symbol) /\ Len(SubSeq(q, a, b)) = b - a + 1
           /\ \A j \in 1..(b - a + 1) : SubSeq(q, a, b)[j] = q[a + j - 1]
<1>1. a \in 1..(Len(q) + 1) /\ b \in 0..Len(q)
  OBVIOUS
<1>2. b - a + 1 = IF a <= b THEN b - a + 1 ELSE 0
  OBVIOUS
<1>3. /\ SubSeq(q, a, b) \in Seq(Symbol)
      /\ Len(SubSeq(q, a, b)) = (IF a <= b THEN b - a + 1 ELSE 0)
      /\ \A i \in 1..(b - a + 1) : SubSeq(q, a, b)[i] = q[a + i - 1]
  BY <1>1, SubSeqProperties
<1> QED BY <1>2, <1>3

LEMMA EolsAre ==
    ASSUME NEW e \in Eols
    PROVE  /\ e \in Seq(Symbol) /\ Len(e) \in {1, 2}
           /\ \/ e = <<"LF">> /\ Len(e) = 1 /\ e[1] = "LF"
              \/ e = <<"CR", "LF">> /\ Len(e) = 2 /\ e[1] = "CR" /\ e[2] = "LF"
<1>1. CASE e = <<"LF">>
  BY <1>1 DEF Symbol
<1>2. CASE e = <<"CR", "LF">>
  BY <1>2 DEF Symbol
<1> QED BY <1>1, <1>2 DEF Eols

\* The chunk that is cut for a part is that part.
LEMMA ChunkOf ==
    ASSUME NEW q \in Seq(Symbol), NEW e \in Eols, NEW k \in Boundaries(q), NEW l \in Boundaries(q),
           Consecutive(q, k, l), IsPart(q, k, l, e)
    PROVE  /\ TokenBegin(q, k - 1) = k /\ Find(q, "B", k) = l - 1
           /\ k < Len(q) /\ Part(q, k, l - 1) \notin Last
           /\ HandleChunk(Part(q, k, l - 1)) =
                 IF q[k + Len(e) + 1] \in Name
                 THEN <<[name     |-> q[k + Len(e) + 1],
                         contents |-> SubSeq(q, k + 3 * Len(e) + 2, l - 2)]>>
                 ELSE <<>>
<1> DEFINE m == Len(e)
           c == Part(q, k, l - 1)
<1>0. /\ e \in Seq(Symbol) /\ m \in {1, 2} /\ m \in Nat /\ 1 \in 1..m
      /\ ((e = <<"LF">> /\ m = 1) \/ (e = <<"CR", "LF">> /\ m = 2)) /\ (e[1] = "LF" \/ e[1] = "CR")
  BY EolsAre
<1>1. /\ k \in 1..Len(q) /\ l \in 1..Len(q) /\ Len(q) \in Nat /\ q[k] = "B" /\ q[l] = "B"
      /\ k < l /\ \A o \in Boundaries(q) : o <= k \/ l <= o
  BY DEF Boundaries, Consecutive
<1>2. /\ k + 4 * m + 2 <= l
      /\ SubSeq(q, k + 1, k + m) = e
      /\ q[k + m + 1] \in Name \union {"x"}
      /\ SubSeq(q, k + m + 2, k + 2 * m + 1) = e
      /\ SubSeq(q, k + 2 * m + 2, k + 3 * m + 1) = e
      /\ SubSeq(q, l - m, l - 1) = e
  BY DEF IsPart
<1> HIDE DEF m
<1>3. /\ k + 1 \in Nat /\ k + m \in Nat /\ 1 <= k + 1 /\ k + 1 <= k + m + 1 /\ k + m <= Len(q)
      /\ k + m + 2 \in Nat /\ k + 2 * m + 1 \in Nat /\ 1 <= k + m + 2
      /\ k + m + 2 <= k + 2 * m + 1 + 1 /\ k + 2 * m + 1 <= Len(q)
      /\ k + 2 * m + 2 \in Nat /\ k + 3 * m + 1 \in Nat /\ 1 <= k + 2 * m + 2
      /\ k + 2 * m + 2 <= k + 3 * m + 1 + 1 /\ k + 3 * m + 1 <= Len(q)
      /\ l - m \in Nat /\ l - 1 \in Nat /\ 1 <= l - m /\ l - m <= l - 1 + 1 /\ l - 1 <= Len(q)
      /\ k + 1 <= l - 1 + 1
      /\ (k + m) - (k + 1) + 1 = m /\ (k + 2 * m + 1) - (k + m + 2) + 1 = m
      /\ (k + 3 * m + 1) - (k + 2 * m + 2) + 1 = m /\ (l - 1) - (l - m) + 1 = m
      /\ (l - 1) - (k + 1) + 1 = l - 1 - k
  BY <1>0, <1>1, <1>2
<1>4. \A j \in 1..m : /\ q[k + 1 + j - 1] = e[j] /\ q[k + m + 2 + j - 1] = e[j]
                      /\ q[k + 2 * m + 2 + j - 1] = e[j] /\ q[l - m + j - 1] = e[j]
  <2>1. \A j \in 1..m : q[k + 1 + j - 1] = e[j]
    <3> DEFINE a == k + 1
               b == k + m
    <3>1. /\ a \in Nat /\ b \in Nat /\ 1 <= a /\ a <= b + 1 /\ b <= Len(q) /\ b - a + 1 = m
          /\ SubSeq(q, a, b) = e
      BY <1>2, <1>3
    <3> SUFFICES \A j \in 1..m : q[a + j - 1] = e[j]
      OBVIOUS
    <3> HIDE DEF a, b
    <3>2. \A j \in 1..(b - a + 1) : SubSeq(q, a, b)[j] = q[a + j - 1]
      BY <3>1, Cut
    <3> QED BY <3>1, <3>2
  <2>2. \A j \in 1..m : q[k + m + 2 + j - 1] = e[j]
    <3> DEFINE a == k + m + 2
               b == k + 2 * m + 1
    <3>1. /\ a \in Nat /\ b \in Nat /\ 1 <= a /\ a <= b + 1 /\ b <= Len(q) /\ b - a + 1 = m
          /\ SubSeq(q, a, b) = e
      BY <1>2, <1>3
    <3> SUFFICES \A j \in 1..m : q[a + j - 1] = e[j]
      OBVIOUS
    <3> HIDE DEF a, b
    <3>2. \A j \in 1..(b - a + 1) : SubSeq(q, a, b)[j] = q[a + j - 1]
      BY <3>1, Cut
    <3> QED BY <3>1, <3>2
  <2>3. \A j \in 1..m : q[k + 2 * m + 2 + j - 1] = e[j]
    <3> DEFINE a == k + 2 * m + 2
               b == k + 3 * m + 1
    <3>1. /\ a \in Nat /\ b \in Nat /\ 1 <= a /\ a <= b + 1 /\ b <= Len(q) /\ b - a + 1 = m
          /\ SubSeq(q, a, b) = e
      BY <1>2, <1>3
    <3> SUFFICES \A j \in 1..m : q[a + j - 1] = e[j]
      OBVIOUS
    <3> HIDE DEF a, b
    <3>2. \A j \in 1..(b - a + 1) : SubSeq(q, a, b)[j] = q[a + j - 1]
      BY <3>1, Cut
    <3> QED BY <3>1, <3>2
  <2>4. \A j \in 1..m : q[l - m + j - 1] = e[j]
    <3> DEFINE a == l - m
               b == l - 1
    <3>1. /\ a \in Nat /\ b \in Nat /\ 1 <= a /\ a <= b + 1 /\ b <= Len(q) /\ b - a + 1 = m
          /\ SubSeq(q, a, b) = e
      BY <1>2, <1>3
    <3> SUFFICES \A j \in 1..m : q[a + j - 1] = e[j]
      OBVIOUS
    <3> HIDE DEF a, b
    <3>2. \A j \in 1..(b - a + 1) : SubSeq(q, a, b)[j] = q[a + j - 1]
      BY <3>1, Cut
    <3> QED BY <3>1, <3>2
  <2> QED BY <2>1, <2>2, <2>3, <2>4
<1>5. /\ c \in Seq(Symbol) /\ Len(c) = l - 1 - k /\ \A j \in 1..(l - 1 - k) : c[j] = q[k + j]
  <2>1. /\ SubSeq(q, k + 1, l - 1) \in Seq(Symbol)
        /\ Len(SubSeq(q, k + 1, l - 1)) = (l - 1) - (k + 1) + 1
        /\ \A j \in 1..((l - 1) - (k + 1) + 1) : SubSeq(q, k + 1, l - 1)[j] = q[k + 1 + j - 1]
    BY <1>3, Cut
  <2>2. \A j \in 1..(l - 1 - k) : k + 1 + j - 1 = k + j
    BY <1>1
  <2> QED BY <1>3, <2>1, <2>2 DEF Part
<1> HIDE DEF c
<1>6. Chunk(c, e)
  <2>1. 4 * m + 1 <= Len(c)
    BY <1>0, <1>1, <1>2, <1>5
  <2>2. ASSUME NEW j \in 1..m
        PROVE  /\ c[j] = e[j] /\ c[m + 1 + j] = e[j] /\ c[2 * m + 1 + j] = e[j]
               /\ c[Len(c) - m + j] = e[j]
    <3>1. /\ j \in 1..(l - 1 - k) /\ m + 1 + j \in 1..(l - 1 - k) /\ 2 * m + 1 + j \in 1..(l - 1 - k)
          /\ Len(c) - m + j \in 1..(l - 1 - k)
      BY <1>0, <1>1, <1>2, <1>5
    <3>2. /\ k + 1 + j - 1 = k + j /\ k + m + 2 + j - 1 = k + (m + 1 + j)
          /\ k + 2 * m + 2 + j - 1 = k + (2 * m + 1 + j)
          /\ l - m + j - 1 = k + (Len(c) - m + j)
      BY <1>0, <1>1, <1>5
    <3>3. /\ c[j] = q[k + j] /\ c[m + 1 + j] = q[k + (m + 1 + j)]
          /\ c[2 * m + 1 + j] = q[k + (2 * m + 1 + j)]
          /\ c[Len(c) - m + j] = q[k + (Len(c) - m + j)]
      BY <1>5, <3>1
    <3>4. /\ q[k + 1 + j - 1] = e[j] /\ q[k + m + 2 + j - 1] = e[j]
          /\ q[k + 2 * m + 2 + j - 1] = e[j] /\ q[l - m + j - 1] = e[j]
      BY <1>4
    <3> QED BY <3>2, <3>3, <3>4
  <2>3. c[m + 1] \in Name \union {"x"}
    <3>1. m + 1 \in 1..(l - 1 - k) /\ k + (m + 1) = k + m + 1
      BY <1>0, <1>1, <1>2
    <3>2. c[m + 1] = q[k + (m + 1)]
      BY <1>5, <3>1
    <3> QED BY <1>2, <3>1, <3>2
  <2> QED BY <2>1, <2>2, <2>3 DEF Chunk, m
<1>7. /\ c[1] # "--" /\ c[1] # "B" /\ q[k + 1] = c[1] /\ k + 1 < Len(q)
      /\ c[m + 1] = q[k + m + 1]
  <2>1. 1 \in 1..(l - 1 - k) /\ m + 1 \in 1..(l - 1 - k) /\ k + 1 < Len(q) /\ k + (m + 1) = k + m + 1
    BY <1>0, <1>1, <1>2
  <2>2. c[1] = q[k + 1] /\ c[m + 1] = q[k + (m + 1)]
    BY <1>5, <2>1
  <2>3. c[1] = e[1]
    BY <1>0, <1>6 DEF Chunk, m
  <2> QED BY <1>0, <2>1, <2>2, <2>3
<1>8. TokenBegin(q, k - 1) = k
  <2>1. /\ k - 1 \in Nat /\ (k - 1) + 1 < Len(q) /\ (k - 1) + 1 = k /\ (k - 1) + 2 = k + 1
    BY <1>1, <1>7
  <2>2. q[(k - 1) + 1] = "B" /\ q[(k - 1) + 2] # "B"
    BY <1>1, <1>7, <2>1
  <2>3. TokenBegin(q, k - 1) = (k - 1) + 1
    BY <2>1, <2>2, TokenBeginIs
  <2> QED BY <2>1, <2>3
<1>9. Find(q, "B", k) = l - 1
  <2>1. /\ k \in Nat /\ l - 1 \in Nat /\ k <= l - 1 /\ l - 1 < Len(q) /\ (l - 1) + 1 = l
    BY <1>1
  <2>2. \A i \in Nat : k <= i /\ i < l - 1 => q[i + 1] # "B"
    <3> TAKE i \in Nat
    <3> HAVE k <= i /\ i < l - 1
    <3>1. i + 1 \in DOMAIN q /\ ~(i + 1 <= k) /\ ~(l <= i + 1)
      BY <1>1
    <3> QED BY <1>1, <3>1 DEF Boundaries
  <2>3. q[(l - 1) + 1] = "B"
    BY <1>1, <2>1
  <2> QED BY <2>1, <2>2, <2>3, FindIs
<1>10. c \notin Last
  BY <1>7 DEF Last
<1>11. HandleChunk(c) = IF q[k + m + 1] \in Name
                       THEN <<[name |-> q[k + m + 1], contents |-> SubSeq(c, 3 * m + 2, Len(c) - 1)]>>
                       ELSE <<>>
  <2>1. CASE e = <<"LF">> /\ m = 1
    <3>1. HandleChunk(c) = IF c[2] \in Name
                           THEN <<[name |-> c[2], contents |-> SubSeq(c, 5, Len(c) - 1)]>>
                           ELSE <<>>
      BY <1>5, <1>6, <2>1, PlainChunk
    <3>2. c[2] = q[k + m + 1] /\ 3 * m + 2 = 5
      BY <1>7, <2>1
    <3> QED BY <3>1, <3>2
  <2>2. CASE e = <<"CR", "LF">> /\ m = 2
    <3>1. HandleChunk(c) = IF c[3] \in Name
                           THEN <<[name |-> c[3], contents |-> SubSeq(c, 8, Len(c) - 1)]>>
                           ELSE <<>>
      BY <1>5, <1>6, <2>2, CarriageChunk
    <3>2. c[3] = q[k + m + 1] /\ 3 * m + 2 = 8
      BY <1>7, <2>2
    <3> QED BY <3>1, <3>2
  <2> QED BY <1>0, <2>1, <2>2
<1>12. SubSeq(c, 3 * m + 2, Len(c) - 1) = SubSeq(q, k + 3 * m + 2, l - 2)
  <2>1. /\ 3 * m + 2 \in Nat /\ Len(c) - 1 \in Nat /\ 1 <= 3 * m + 2 /\ 3 * m + 2 <= Len(c) - 1 + 1
        /\ Len(c) - 1 <= Len(c)
        /\ k + 3 * m + 2 \in Nat /\ l - 2 \in Nat /\ 1 <= k + 3 * m + 2
        /\ k + 3 * m + 2 <= l - 2 + 1 /\ l - 2 <= Len(q)
        /\ (Len(c) - 1) - (3 * m + 2) + 1 = (l - 2) - (k + 3 * m + 2) + 1
    BY <1>0, <1>1, <1>2, <1>5
  <2>2. /\ SubSeq(c, 3 * m + 2, Len(c) - 1) \in Seq(Symbol)
        /\ Len(SubSeq(c, 3 * m + 2, Len(c) - 1)) = (Len(c) - 1) - (3 * m + 2) + 1
        /\ \A j \in 1..((Len(c) - 1) - (3 * m + 2) + 1) :
              SubSeq(c, 3 * m + 2, Len(c) - 1)[j] = c[3 * m + 2 + j - 1]
    BY <1>5, <2>1, Cut
  <2>3. /\ SubSeq(q, k + 3 * m + 2, l - 2) \in Seq(Symbol)
        /\ Len(SubSeq(q, k + 3 * m + 2, l - 2)) = (l - 2) - (k + 3 * m + 2) + 1
        /\ \A j \in 1..((l - 2) - (k + 3 * m + 2) + 1) :
              SubSeq(q, k + 3 * m + 2, l - 2)[j] = q[k + 3 * m + 2 + j - 1]
    BY <2>1, Cut
  <2>4. ASSUME NEW j \in 1..((l - 2) - (k + 3 * m + 2) + 1)
        PROVE  c[3 * m + 2 + j - 1] = q[k + 3 * m + 2 + j - 1]
    <3>1. /\ 3 * m + 2 + j - 1 \in 1..(l - 1 - k)
          /\ k + (3 * m + 2 + j - 1) = k + 3 * m + 2 + j - 1
      BY <1>0, <1>1, <1>2
    <3>2. c[3 * m + 2 + j - 1] = q[k + (3 * m + 2 + j - 1)]
      BY <1>5, <3>1
    <3> QED BY <3>1, <3>2
  <2> DEFINE s == SubSeq(c, 3 * m + 2, Len(c) - 1)
             t == SubSeq(q, k + 3 * m + 2, l - 2)
  <2>5. /\ s \in Seq(Symbol) /\ t \in Seq(Symbol) /\ Len(s) = Len(t)
        /\ \A j \in 1..Len(s) : s[j] = t[j]
    BY <2>1, <2>2, <2>3, <2>4
  <2> HIDE DEF s, t
  <2>6. s = t
    BY <2>5, SeqEqual
  <2> QED BY <2>6 DEF s, t
<1>13. HandleChunk(c) = IF q[k + m + 1] \in Name
                       THEN <<[name |-> q[k + m + 1], contents |-> SubSeq(q, k + 3 * m + 2, l - 2)]>>
                       ELSE <<>>
  BY <1>11, <1>12
<1>14. k < Len(q)
  BY <1>1
<1> QED BY <1>8, <1>9, <1>10, <1>13, <1>14 DEF c, m

LEMMA ChunkAfter ==
    ASSUME NEW q \in Seq(Symbol), NEW e \in Eols, NEW k \in Boundaries(q), Final(q, k),
           SubSeq(q, k + 1, Len(q)) = <<"--">> \o e
    PROVE  /\ TokenBegin(q, k - 1) = k /\ Find(q, "B", k) = Len(q)
           /\ Part(q, k, Len(q)) \in Last /\ q[k + Len(e) + 1] \notin Name
<1>1. /\ k \in 1..Len(q) /\ Len(q) \in Nat /\ q[k] = "B" /\ \A o \in Boundaries(q) : o <= k
  BY DEF Boundaries, Final
<1>3. PICK d : /\ SubSeq(q, k + 1, Len(q)) = d /\ Len(e) \in Nat /\ Len(d) = Len(e) + 1 /\ Len(e) > 0
               /\ d \in Last /\ d[1] = "--" /\ d[Len(e) + 1] = "LF"
  <2> DEFINE d == <<"--">> \o e
             a == <<"--", "LF">>
             b == <<"--", "CR", "LF">>
             h == <<"--">>
  <2>1. /\ a \in Seq(Symbol) /\ Len(a) = 2 /\ a[1] = "--" /\ a[2] = "LF" /\ a \in Last
        /\ b \in Seq(Symbol) /\ Len(b) = 3 /\ b[1] = "--" /\ b[2] = "CR" /\ b[3] = "LF" /\ b \in Last
        /\ h \in Seq(Symbol) /\ Len(h) = 1 /\ h[1] = "--"
    BY DEF Last, Symbol
  <2>2. d = h \o e
    OBVIOUS
  <2> HIDE DEF a, b, h, d
  <2>3. /\ d \in Seq(Symbol) /\ Len(d) = Len(h) + Len(e)
        /\ \A i \in 1..(Len(h) + Len(e)) : d[i] = IF i <= Len(h) THEN h[i] ELSE e[i - Len(h)]
    <3>1. e \in Seq(Symbol) /\ h \in Seq(Symbol)
      BY <2>1, EolsAre
    <3>2. /\ h \o e \in Seq(Symbol) /\ Len(h \o e) = Len(h) + Len(e)
          /\ \A i \in 1..(Len(h) + Len(e)) : (h \o e)[i] = IF i <= Len(h) THEN h[i] ELSE e[i - Len(h)]
      BY ONLY <3>1, ConcatProperties
    <3> QED BY <2>2, <3>2
  <2>4. /\ Len(d) = 1 + Len(e) /\ d[1] = "--"
        /\ \A i \in 2..(1 + Len(e)) : d[i] = e[i - 1]
    BY <2>1, <2>3, EolsAre
  <2>5. d \in Last
    <3>1. CASE Len(e) = 1 /\ e[1] = "LF"
      <4>1. /\ Len(d) = Len(a) /\ \A i \in 1..Len(a) : d[i] = a[i]
        BY <2>1, <2>4, <3>1
      <4> QED BY <2>1, <2>3, <4>1, SeqEqual
    <3>2. CASE Len(e) = 2 /\ e[1] = "CR" /\ e[2] = "LF"
      <4>1. Len(d) = 3 /\ d[1] = "--" /\ d[2] = "CR" /\ d[3] = "LF"
        BY <2>4, <3>2
      <4>2. /\ Len(d) = Len(b) /\ \A i \in 1..Len(b) : d[i] = b[i]
        BY <2>1, <4>1
      <4> QED BY <2>1, <2>3, <4>2, SeqEqual
    <3> QED BY <3>1, <3>2, EolsAre
  <2>6. d[Len(e) + 1] = "LF" /\ Len(e) \in Nat /\ Len(e) > 0 /\ Len(d) = Len(e) + 1
    <3>1. CASE Len(e) = 1 /\ e[1] = "LF"
      BY <2>4, <3>1
    <3>2. CASE Len(e) = 2 /\ e[2] = "LF"
      BY <2>4, <3>2
    <3> QED BY <3>1, <3>2, EolsAre
  <2>7. SubSeq(q, k + 1, Len(q)) = d
    BY DEF d
  <2> QED BY <2>4, <2>5, <2>6, <2>7
<1>4. /\ Len(d) = Len(q) - (k + 1) + 1
      /\ \A j \in 1..(Len(q) - (k + 1) + 1) : d[j] = q[k + 1 + j - 1]
  <2>1. k + 1 \in Nat /\ 1 <= k + 1 /\ k + 1 <= Len(q) + 1 /\ Len(q) <= Len(q)
    BY <1>1
  <2> QED BY <1>1, <1>3, <2>1, Cut
<1>5. q[k + 1] = "--" /\ k + 1 < Len(q) /\ q[k + Len(e) + 1] = "LF"
  <2>1. /\ 1 \in 1..(Len(q) - (k + 1) + 1) /\ Len(e) + 1 \in 1..(Len(q) - (k + 1) + 1)
        /\ k + 1 + 1 - 1 = k + 1 /\ k + 1 + (Len(e) + 1) - 1 = k + Len(e) + 1 /\ k + 1 < Len(q)
    BY <1>1, <1>3, <1>4
  <2>2. d[1] = q[k + 1 + 1 - 1] /\ d[Len(e) + 1] = q[k + 1 + (Len(e) + 1) - 1]
    BY <1>4, <2>1
  <2> QED BY <1>3, <2>1, <2>2
<1>6. TokenBegin(q, k - 1) = k
  <2>1. /\ k - 1 \in Nat /\ (k - 1) + 1 < Len(q) /\ (k - 1) + 1 = k /\ (k - 1) + 2 = k + 1
    BY <1>1, <1>5
  <2>2. q[(k - 1) + 1] = "B" /\ q[(k - 1) + 2] # "B"
    BY <1>1, <1>5, <2>1
  <2>3. TokenBegin(q, k - 1) = (k - 1) + 1
    BY <2>1, <2>2, TokenBeginIs
  <2> QED BY <2>1, <2>3
<1>7. Find(q, "B", k) = Len(q)
  <2>1. \A i \in Nat : k <= i /\ i < Len(q) => q[i + 1] # "B"
    <3> TAKE i \in Nat
    <3> HAVE k <= i /\ i < Len(q)
    <3>1. i + 1 \in DOMAIN q /\ ~(i + 1 <= k)
      BY <1>1
    <3> QED BY <1>1, <3>1 DEF Boundaries
  <2> QED BY <1>1, <2>1, FindNone
<1>8. Part(q, k, Len(q)) = d
  BY <1>3 DEF Part
<1> QED BY <1>3, <1>5, <1>6, <1>7, <1>8, UploadAssumption

LEMMA BoundaryAfter ==
    ASSUME NEW q \in Seq(Symbol), NEW k \in Boundaries(q), ~Final(q, k)
    PROVE  \E l \in Boundaries(q) : Consecutive(q, k, l)
<1> DEFINE T == {o \in Boundaries(q) : o > k}
           l == CHOOSE x \in T : \A y \in T : x <= y
<1>1. Boundaries(q) \subseteq Nat
  BY DEF Boundaries
<1>2. T \subseteq Nat /\ T # {}
  BY <1>1 DEF Final
<1>3. l \in T /\ \A y \in T : l <= y
  BY <1>2, Smallest
<1> HIDE DEF l
<1>4. l \in Boundaries(q) /\ k < l /\ \A o \in Boundaries(q) : o <= k \/ l <= o
  BY <1>1, <1>3
<1> QED BY <1>4 DEF Consecutive

-----------------------------------------------------------------------------
(* The files of a body *)

Upto(S, k) == {j \in S : j <= k}

LEMMA UptoSize ==
    ASSUME NEW N \in Nat, NEW S, S \subseteq 1..N, NEW k \in Nat
    PROVE  IsFiniteSet(Upto(S, k)) /\ Cardinality(Upto(S, k)) \in Nat
<1>1. IsFiniteSet(1..N)
  BY FS_Interval
<1>2. Upto(S, k) \subseteq 1..N
  BY DEF Upto
<1> QED BY <1>1, <1>2, FS_Subset, FS_CardinalityType

LEMMA UptoNext ==
    ASSUME NEW N \in Nat, NEW S, S \subseteq 1..N, NEW p \in Nat
    PROVE  Cardinality(Upto(S, p + 1)) =
               IF p + 1 \in S THEN Cardinality(Upto(S, p)) + 1 ELSE Cardinality(Upto(S, p))
<1>0. \A j \in S : j \in Nat /\ (j <= p + 1 <=> j <= p \/ j = p + 1) /\ ~(p + 1 <= p) /\ p + 1 <= p + 1
  BY SMT
<1>1. CASE p + 1 \in S
  <2>1. Upto(S, p + 1) = Upto(S, p) \union {p + 1} /\ p + 1 \notin Upto(S, p)
    BY <1>0, <1>1 DEF Upto
  <2> QED BY <1>1, <2>1, UptoSize, FS_AddElement
<1>2. CASE p + 1 \notin S
  <2>1. Upto(S, p + 1) = Upto(S, p)
    BY <1>0, <1>2 DEF Upto
  <2> QED BY <1>2, <2>1
<1> QED BY <1>1, <1>2

LEMMA UptoPlace ==
    ASSUME NEW N \in Nat, NEW S, S \subseteq 1..N, NEW p \in Nat, NEW k \in S, k <= p
    PROVE  Cardinality(Upto(S, k)) \in 1..Cardinality(Upto(S, p))
<1>1. k \in Nat /\ Upto(S, k) \subseteq Upto(S, p) /\ k \in Upto(S, k)
  <2>1. k \in Nat /\ k <= k /\ \A j \in S : j \in Nat /\ (j <= k => j <= p)
    BY SMT
  <2> QED BY <2>1 DEF Upto
<1>2. /\ IsFiniteSet(Upto(S, p)) /\ Cardinality(Upto(S, p)) \in Nat
      /\ IsFiniteSet(Upto(S, k)) /\ Cardinality(Upto(S, k)) \in Nat
  BY <1>1, UptoSize
<1>3. Cardinality(Upto(S, k)) <= Cardinality(Upto(S, p))
  BY <1>1, <1>2, FS_Subset
<1>4. Cardinality(Upto(S, k)) # 0
  BY <1>1, <1>2, FS_EmptySet
<1> QED BY <1>2, <1>3, <1>4

\* While the body is cut the next symbol is a boundary, and the files found are
\* those of the parts before it; afterwards it is the last boundary.
Cutting(e) ==
    /\ pos + 1 \in Boundaries(body)
    /\ Len(files) = Cardinality(Upto(FileParts(body, e), pos))
    /\ \A k \in FileParts(body, e), l \in Boundaries(body) :
          Consecutive(body, k, l) /\ k <= pos => files[Place(body, k, e)] = PartFile(body, k, l, e)
    /\ phase # "parse" => Final(body, pos + 1)

CInv == \A e \in Eols : Multipart(body, e) => Cutting(e)

LEMMA PartsAt ==
    ASSUME NEW q \in Seq(Symbol), NEW e \in Eols
    PROVE  /\ Len(q) \in Nat /\ FileParts(q, e) \subseteq Boundaries(q)
           /\ Boundaries(q) \subseteq 1..Len(q) /\ FileParts(q, e) \subseteq 1..Len(q)
  BY DEF FileParts, Boundaries

LEMMA CuttingStarts == Init => CInv
<1> SUFFICES ASSUME Init, NEW e \in Eols, Multipart(body, e) PROVE Cutting(e)
  BY DEF CInv
<1>1. pos = 0 /\ files = <<>> /\ phase = "parse" /\ body \in Seq(Symbol)
  BY UploadAssumption DEF Init
<1>2. FileParts(body, e) \subseteq 1..Len(body)
  BY <1>1, PartsAt
<1>3. Upto(FileParts(body, e), pos) = {}
  BY <1>1, <1>2 DEF Upto
<1>4. Len(files) = Cardinality(Upto(FileParts(body, e), pos))
  BY <1>1, <1>3, FS_EmptySet
<1>5. \A k \in FileParts(body, e) : ~(k <= pos)
  BY <1>1, <1>2
<1>6. pos + 1 \in Boundaries(body)
  BY <1>1 DEF Multipart
<1> QED BY <1>1, <1>4, <1>5, <1>6 DEF Cutting

LEMMA CuttingStep ==
    ASSUME IInv, ParseBody, NEW e \in Eols, Multipart(body, e), Cutting(e)
    PROVE  Cutting(e)'
<1> DEFINE begin == TokenBegin(body, pos)
           end   == Find(body, "B", begin)
           chunk == Part(body, begin, end)
           S     == FileParts(body, e)
<1>1. /\ phase = "parse" /\ body' = body
      /\ \/ /\ begin = Len(body) \/ chunk \in Last
            /\ phase' = "check" /\ pos' = pos /\ files' = files
         \/ /\ begin < Len(body) /\ chunk \notin Last
            /\ pos' = end /\ files' = files \o HandleChunk(chunk) /\ phase' = phase
  BY DEF ParseBody
<1>2. /\ body \in Seq(Symbol) /\ pos \in Nat /\ files \in Seq(File) /\ Len(files) \in Nat
      /\ Len(body) \in Nat
  BY DEF IInv, TypeOK
<1>3. S \subseteq Boundaries(body) /\ Boundaries(body) \subseteq 1..Len(body) /\ S \subseteq 1..Len(body)
  BY <1>2, PartsAt
<1>4. PICK k : k = pos + 1
  OBVIOUS
<1>5. k \in Boundaries(body) /\ k - 1 = pos /\ k \in Nat
  BY <1>2, <1>4 DEF Cutting
<1>6. /\ Len(files) = Cardinality(Upto(S, pos))
      /\ \A j \in S, l \in Boundaries(body) :
            Consecutive(body, j, l) /\ j <= pos => files[Place(body, j, e)] = PartFile(body, j, l, e)
  BY DEF Cutting
<1>7. CASE Final(body, k)
  <2>1. SubSeq(body, k + 1, Len(body)) = <<"--">> \o e
    BY <1>5, <1>7 DEF Multipart
  <2>2. begin = k /\ Find(body, "B", k) = Len(body) /\ Part(body, k, Len(body)) \in Last
    <3> HIDE DEF begin
    <3>1. TokenBegin(body, k - 1) = k /\ Find(body, "B", k) = Len(body) /\ Part(body, k, Len(body)) \in Last
      BY <1>2, <1>5, <1>7, <2>1, ChunkAfter
    <3> QED BY <1>5, <3>1 DEF begin
  <2>3. chunk \in Last
    BY <2>2
  <2> HIDE DEF begin, end, chunk
  <2>4. UNCHANGED <<body, pos, files>>
    BY <1>1, <2>3
  <2> QED BY <1>4, <1>7, <2>4 DEF Cutting
<1>8. CASE ~Final(body, k)
  <2>1. PICK l \in Boundaries(body) : Consecutive(body, k, l)
    BY <1>2, <1>5, <1>8, BoundaryAfter
  <2>2. IsPart(body, k, l, e)
    BY <1>5, <2>1 DEF Multipart
  <2>3. /\ TokenBegin(body, k - 1) = k /\ Find(body, "B", k) = l - 1
        /\ k < Len(body) /\ Part(body, k, l - 1) \notin Last
        /\ HandleChunk(Part(body, k, l - 1)) =
              IF body[k + Len(e) + 1] \in Name THEN <<PartFile(body, k, l, e)>> ELSE <<>>
    BY <1>2, <1>5, <2>1, <2>2, ChunkOf DEF PartFile
  <2>4. begin = k /\ end = l - 1 /\ chunk = Part(body, k, l - 1)
    BY <1>5, <2>3
  <2> HIDE DEF begin, end, chunk
  <2>5. /\ pos' = l - 1 /\ phase' = "parse" /\ body' = body
        /\ files' = files \o (IF k \in S THEN <<PartFile(body, k, l, e)>> ELSE <<>>)
    <3>1. begin < Len(body) /\ begin # Len(body) /\ chunk \notin Last
      BY <1>2, <1>5, <2>3, <2>4
    <3>2. pos' = end /\ files' = files \o HandleChunk(chunk) /\ phase' = phase
      BY <1>1, <3>1
    <3>3. k \in S <=> body[k + Len(e) + 1] \in Name
      BY <1>5 DEF FileParts
    <3> QED BY <1>1, <2>3, <2>4, <3>2, <3>3
  <2> HIDE DEF S
  <2>6. l \in Nat /\ k < l /\ pos' + 1 = l /\ k \in Nat /\ l - 1 \in Nat
    BY <1>3, <1>5, <2>1, <2>5 DEF Consecutive
  <2>7. Upto(S, l - 1) = Upto(S, k)
    <3>1. \A j \in S : j \in Nat /\ (j <= k \/ l <= j)
      BY <1>3, <2>1 DEF Consecutive
    <3>2. \A j \in S : j <= l - 1 <=> j <= k
      BY <2>6, <3>1
    <3> QED BY <3>2 DEF Upto
  <2>8. Cardinality(Upto(S, k)) = IF k \in S THEN Len(files) + 1 ELSE Len(files)
    BY <1>2, <1>3, <1>4, <1>6, UptoNext
  <2>9. /\ Len(files') = Cardinality(Upto(S, l - 1))
        /\ \A i \in 1..Len(files) : files'[i] = files[i]
        /\ k \in S => files'[Len(files) + 1] = PartFile(body, k, l, e)
    <3>1. CASE k \in S
      <4>1. files' = Append(files, PartFile(body, k, l, e))
        <5>1. files' = files \o <<PartFile(body, k, l, e)>>
          BY <2>5, <3>1
        <5> QED BY <1>2, <5>1, AppendIsConcat
      <4> QED BY <1>2, <2>7, <2>8, <3>1, <4>1
    <3>2. CASE k \notin S
      <4>1. files' = files
        <5>1. files' = files \o <<>>
          BY <2>5, <3>2
        <5> QED BY <1>2, <5>1, ConcatEmptySeq
      <4> QED BY <2>7, <2>8, <3>2, <4>1
    <3> QED BY <3>1, <3>2
  <2>10. ASSUME NEW j \in S, NEW o \in Boundaries(body), Consecutive(body, j, o), j <= l - 1
         PROVE  files'[Place(body, j, e)] = PartFile(body, j, o, e)
    <3>1. Place(body, j, e) = Cardinality(Upto(S, j)) /\ j \in Nat
      BY <1>3 DEF Place, Upto, S
    <3>2. CASE j <= pos
      <4>1. Place(body, j, e) \in 1..Len(files)
        BY <1>2, <1>3, <1>6, <3>1, <3>2, UptoPlace
      <4>2. files[Place(body, j, e)] = PartFile(body, j, o, e)
        BY <1>6, <2>10, <3>2
      <4> QED BY <2>9, <4>1, <4>2
    <3>3. CASE ~(j <= pos)
      <4>1. j = k
        <5>1. j <= k \/ l <= j
          BY <1>3, <2>1 DEF Consecutive
        <5> QED BY <1>2, <1>4, <2>6, <2>10, <3>1, <3>3, <5>1
      <4>2. o = l
        <5>1. /\ k < o /\ (o <= k \/ l <= o) /\ (l <= k \/ o <= l) /\ o \in Nat
          BY <1>3, <2>1, <2>10, <4>1 DEF Consecutive
        <5> QED BY <2>6, <5>1
      <4>3. Place(body, j, e) = Len(files) + 1
        BY <2>8, <3>1, <4>1
      <4> QED BY <2>9, <4>1, <4>2, <4>3
    <3> QED BY <3>2, <3>3
  <2>11. /\ pos' + 1 \in Boundaries(body)
         /\ Len(files') = Cardinality(Upto(FileParts(body, e), pos'))
         /\ \A j \in FileParts(body, e), o \in Boundaries(body) :
               Consecutive(body, j, o) /\ j <= pos'
                 => files'[Place(body, j, e)] = PartFile(body, j, o, e)
    BY <2>5, <2>6, <2>9, <2>10 DEF S
  <2> QED BY <2>5, <2>11 DEF Cutting
<1> QED BY <1>7, <1>8

\* The parts of a multipart body are found, all of them, in their order and
\* with their contents, however many there are.
THEOREM PartsFound == Spec => []PartsExact
<1>1. Init => CInv
  BY CuttingStarts
<1>2. IInv /\ CInv /\ [Next]_vars => CInv'
  <2> SUFFICES ASSUME IInv, CInv, [Next]_vars PROVE CInv'
    OBVIOUS
  <2>1. CASE ParseBody
    <3>1. body' = body
      BY <2>1 DEF ParseBody
    <3> SUFFICES ASSUME NEW e \in Eols, Multipart(body, e) PROVE Cutting(e)'
      BY <3>1 DEF CInv
    <3>2. Cutting(e)
      BY DEF CInv
    <3> QED BY <2>1, <3>2, CuttingStep
  <2>2. CASE ~ParseBody
    <3>1. UNCHANGED <<body, pos, files>> /\ (phase = "parse" => phase' = phase)
      <4>1. CASE CheckFile \/ Checked \/ OpenFile \/ WriteFile \/ Finish
        BY <4>1 DEF CheckFile, Checked, OpenFile, WriteFile, Finish
      <4>2. CASE Others
        BY <4>2 DEF Others, Create, Remove, Rename, request
      <4>3. CASE UNCHANGED vars
        BY <4>3 DEF vars, request
      <4> QED BY <2>2, <4>1, <4>2, <4>3 DEF Next, Server
    <3>2. ASSUME NEW e \in Eols, Multipart(body, e), Cutting(e) PROVE Cutting(e)'
      BY <3>1, <3>2 DEF Cutting
    <3> QED BY <3>1, <3>2 DEF CInv
  <2> QED BY <2>1, <2>2
<1>3. IInv /\ CInv => PartsExact
  <2> SUFFICES ASSUME IInv, CInv, phase # "parse", NEW e \in Eols, Multipart(body, e)
               PROVE  /\ Len(files) = Cardinality(FileParts(body, e))
                      /\ \A k \in FileParts(body, e), l \in Boundaries(body) :
                            Consecutive(body, k, l) =>
                                files[Place(body, k, e)] = PartFile(body, k, l, e)
    BY DEF PartsExact
  <2>1. Cutting(e) /\ Final(body, pos + 1) /\ pos + 1 \in Boundaries(body)
    BY DEF CInv, Cutting
  <2>2. body \in Seq(Symbol) /\ pos \in Nat
    BY DEF IInv, TypeOK
  <2>3. pos + 1 \notin FileParts(body, e)
    <3>1. SubSeq(body, (pos + 1) + 1, Len(body)) = <<"--">> \o e
      BY <2>1 DEF Multipart
    <3>2. body[(pos + 1) + Len(e) + 1] \notin Name
      BY <2>1, <2>2, <3>1, ChunkAfter
    <3> QED BY <3>2 DEF FileParts
  <2>4. \A k \in FileParts(body, e) : k <= pos
    <3> TAKE k \in FileParts(body, e)
    <3>1. k \in Nat /\ k <= pos + 1 /\ k # pos + 1
      BY <2>1, <2>2, <2>3, PartsAt DEF Final
    <3> QED BY <2>2, <3>1
  <2>5. Upto(FileParts(body, e), pos) = FileParts(body, e)
    BY <2>4 DEF Upto
  <2> QED BY <2>1, <2>4, <2>5 DEF Cutting
<1>4. Spec => []CInv
  BY <1>1, <1>2, UploadInvariant, PTL DEF Spec
<1> QED BY <1>3, <1>4, UploadInvariant, PTL
=============================================================================
