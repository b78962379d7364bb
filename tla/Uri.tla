--------------------------------- MODULE Uri ---------------------------------
(***************************************************************************)
(* URI::Parse of src/sources/http/uri.cc: a state machine (common/fsm.h)   *)
(* that cuts the target of a request line into its components and checks   *)
(* and decodes each one.                                                   *)
(*                                                                         *)
(* A target is a sequence of symbols.  A symbol is a character or one      *)
(* member of a class the parser treats alike: a whole escape, the scheme.  *)
(***************************************************************************)
EXTENDS Naturals, Sequences, FiniteSetsExt

SCHEME     == "http://"      \* in any case, and only at the beginning
Letter     == {"a", "b", "c", "i", "r", "A"}
Digit      == {"7"}
Unreserved == Letter \union Digit          \* IsUnrsvdSym
SubDelim   == {"!"}                        \* IsSubDelim
Escape     == {"%41", "%4a"}               \* two hexadecimal digits follow the %
Other      == {"%z", "^"}                  \* a % alone, a character of no class
Symbol     == Unreserved \union SubDelim \union Escape \union Other
              \union {"/", ":", "@", "?", "#", SCHEME}

NoURI == [userinfo |-> <<>>, hostname |-> <<>>, path |-> <<>>,
          query |-> <<>>, fragment |-> <<>>]

-----------------------------------------------------------------------------
(* Components *)

\* The digits of an escape are accepted in both cases, but only upper-case
\* ones are known to HexSymToNum: any other gives the empty string.
PercentDecode(s) ==
    IF \E i \in DOMAIN s : s[i] \in {"%4a", "%z"} THEN <<>>
    ELSE [i \in DOMAIN s |-> IF s[i] = "%41" THEN "A" ELSE s[i]]

StrToLower(s) == [i \in DOMAIN s |-> IF s[i] = "A" THEN "a" ELSE s[i]]

\* Something must follow the escape in its component (str.length() - i > 3).
IsValidPercentEncoding(s, i) == s[i] \in Escape /\ i < Len(s)

\* The first position from p on of a symbol of S, or the one after the end.
FindFirstOf(s, S, p) == Min({i \in p..Len(s) : s[i] \in S} \union {Len(s) + 1})

ValidUserInfo(s) ==
    \A i \in DOMAIN s : \/ s[i] \in Unreserved \union SubDelim \union {":"}
                        \/ IsValidPercentEncoding(s, i)

ValidHost(s) ==
    LET colon == FindFirstOf(s, {":"}, 1) IN
    /\ colon > 1
    /\ \A i \in 1..(colon - 1) : \/ s[i] \in Unreserved \union SubDelim
                                 \/ IsValidPercentEncoding(s, i)
    /\ colon # Len(s)
    /\ \A i \in (colon + 1)..Len(s) : s[i] \in Digit

\* Segments begin with a slash; only the last one may be empty.
ValidPath(s) ==
    /\ s # <<>> => s[1] = "/"
    /\ \A i \in DOMAIN s : \/ s[i] \in Unreserved \union SubDelim \union {":", "@", "/"}
                           \/ IsValidPercentEncoding(s, i)
    /\ \A i \in 1..(Len(s) - 1) : ~(s[i] = "/" /\ s[i + 1] = "/")

-----------------------------------------------------------------------------
(* The machine: one turn of the loop of FSM::Process per step.  pos is both *)
(* tok_begin and tok_end, which agree between two turns.                    *)

NewParser == [st |-> "INIT", pos |-> 1, run |-> TRUE, err |-> FALSE, uri |-> NoURI]

Token(t, from, to) == SubSeq(t, from, to - 1)

\* The state that goes on at a delimiter.
After(t, i) == IF i > Len(t) THEN "END"
               ELSE CASE t[i] = "/" -> "PATH" [] t[i] = "?" -> "QUERY" [] t[i] = "#" -> "FRAG"

FsmInit(t, p) == IF t # <<>> /\ t[1] = SCHEME
                 THEN [p EXCEPT !.st = "AUTH", !.pos = 2] ELSE [p EXCEPT !.st = "PATH"]

\* A second userinfo replaces the first.
FsmAuth(t, p) ==
    LET i   == FindFirstOf(t, {"@", "/", "?", "#"}, p.pos)
        tok == Token(t, p.pos, i)
    IN  IF i <= Len(t) /\ t[i] = "@"
        THEN [p EXCEPT !.uri.userinfo = PercentDecode(tok), !.pos = i + 1,
                       !.err = ~ValidUserInfo(tok), !.run = ValidUserInfo(tok)]
        ELSE [p EXCEPT !.uri.hostname = StrToLower(PercentDecode(tok)), !.pos = i,
                       !.err = ~ValidHost(tok), !.run = ValidHost(tok), !.st = After(t, i)]

PathWithFragment(t, p) ==                                           \* mutant
    LET i   == FindFirstOf(t, {"?"}, p.pos)
        tok == Token(t, p.pos, i)
    IN  [p EXCEPT !.uri.path = PercentDecode(tok), !.pos = i,
                  !.err = ~ValidPath(tok), !.run = ValidPath(tok), !.st = After(t, i)]

FsmPath(t, p) ==
    LET i   == FindFirstOf(t, {"?", "#"}, p.pos)
        tok == Token(t, p.pos, i)
    IN  [p EXCEPT !.uri.path = PercentDecode(tok), !.pos = i,
                  !.err = ~ValidPath(tok), !.run = ValidPath(tok), !.st = After(t, i)]

FsmQuery(t, p) ==
    LET i == FindFirstOf(t, {"#"}, p.pos + 1)
    IN  [p EXCEPT !.uri.query = Token(t, p.pos + 1, i), !.pos = i, !.st = After(t, i)]

FsmFrag(t, p) == [p EXCEPT !.uri.fragment = Token(t, p.pos + 1, Len(t) + 1),
                           !.pos = Len(t) + 1, !.st = "END"]

FsmEnd(p) == [p EXCEPT !.run = FALSE, !.uri.path = IF @ = <<>> THEN <<"/">> ELSE @]

UriStep(t, p) ==
    CASE p.st = "INIT"  -> FsmInit(t, p)
      [] p.st = "AUTH"  -> FsmAuth(t, p)
      [] p.st = "PATH"  -> FsmPath(t, p)
      [] p.st = "QUERY" -> FsmQuery(t, p)
      [] p.st = "FRAG"  -> FsmFrag(t, p)
      [] p.st = "END"   -> FsmEnd(p)

-----------------------------------------------------------------------------
(* The grammar the machine should recognise, without its states:           *)
(*   target = [ SCHEME *( userinfo "@" ) host ] path [ "?" query ] [ "#" fragment ] *)

Upto(s, S) == Token(s, 1, FindFirstOf(s, S, 1))
From(s, S) == SubSeq(s, FindFirstOf(s, S, 1) + 1, Len(s))

HasScheme(t) == t # <<>> /\ t[1] = SCHEME
Body(t)      == IF HasScheme(t) THEN Tail(t) ELSE t
Front(t)     == Upto(Body(t), {"?", "#"})
Authority(t) == IF HasScheme(t) THEN Upto(Front(t), {"/"}) ELSE <<>>
PathOf(t)    == SubSeq(Front(t), Len(Authority(t)) + 1, Len(Front(t)))
QueryOf(t)   == From(Upto(Body(t), {"#"}), {"?"})

\* What an "@" of the authority ends, and what the last one leaves.
Ats(auth)         == {0} \union {i \in DOMAIN auth : auth[i] = "@"}
UserInfo(auth, i) == SubSeq(auth, Max({j \in Ats(auth) : j < i}) + 1, i - 1)
Host(auth)        == SubSeq(auth, Max(Ats(auth)) + 1, Len(auth))

Grammar(t) ==
    LET auth == Authority(t)
        path == PercentDecode(PathOf(t))
        last == Max(Ats(auth))
    IN  [ ok |-> /\ HasScheme(t) => ValidHost(Host(auth))
                 /\ \A i \in Ats(auth) \ {0} : ValidUserInfo(UserInfo(auth, i))
                 /\ ValidPath(PathOf(t)),
          uri |-> [ userinfo |-> IF last = 0 THEN <<>> ELSE PercentDecode(UserInfo(auth, last)),
                    hostname |-> StrToLower(PercentDecode(Host(auth))),
                    path     |-> IF path = <<>> THEN <<"/">> ELSE path,
                    query    |-> QueryOf(t),
                    fragment |-> From(Body(t), {"#"}) ] ]
=============================================================================
