-------------------------------- MODULE MCSite --------------------------------
(* Sites for TLC.  The first one asks for every target up to MaxTarget      *)
(* symbols.  The others are one configuration, with a line more or less.    *)
EXTENDS Site

Seqs == INSTANCE SequencesExt

CONSTANT MaxTarget

Strings == STRING

NamesInOrder == <<"s1", "s2", "s3">>

\* The field "names", with the text of its value.
NamesField(names) ==
    LET Text(name) == [k \in DOMAIN name |-> IF name[k] \in {"[", "]"} THEN name[k] ELSE "x"]
        Join(text, name) == text \o <<"x">> \o Text(name)
    IN  Bracketed("names", names, Seqs!FoldLeft(Join, <<>>, names))

Common == <<
    Comment,
    Header(<<"GLOBAL">>), Field("logger", "log"), Blank,
    Header(<<"LOGGERS", "log">>), Field("lvl", "DEBUG"), Blank >>

Rest == <<
    Header(<<"ROUTES", "list">>),
      Field("location", <<"/", "a">>), Field("root", <<"r">>),
      Field("allowed_methods", {"GET"}), Comment, Field("listing", TRUE), Blank,
    Header(<<"ROUTES", "page">>),
      Field("location", <<"/", "b">>), Field("root", <<"r", "/">>),
      Field("allowed_methods", {"GET", "POST"}), Field("index", <<"i">>), Blank,
    Header(<<"ROUTES", "moved">>),
      Field("location", <<"/", "c">>),
      Field("redirect", [to |-> <<"/", "a", "/">>, code |-> 301]), Blank,
    Header(<<"ROUTES", "all">>),
      Field("location", <<"/">>), Field("root", <<"r", "/">>),
      Field("allowed_methods", {"GET"}), Field("listing", TRUE), Field("cgi", TRUE),
    Header(<<"SERVERS", "s3">>),
      Field("listen", "p2"), NamesField(<< <<"*">> >>), Field("routes", <<"all">>),
      Field("access_log", "log"), Blank,
    Header(<<"SERVERS", "s1">>),
      Field("listen", "p1"), NamesField(<< <<"a", "*", "b">>, <<"c">> >>),
      Field("routes", <<"list", "page", "moved">>),
      Field("access_log", "log"), Field("error_log", "log"),
    Header(<<"SERVERS", "s2">>),
      Field("listen", "p1"), NamesField(<< <<"*">>, <<"c", "c">> >>),
      Field("routes", <<"moved", "list">>), Field("access_log", "log") >>

Good == Common \o Rest

Small == Common \o <<
    Header(<<"ROUTES", "all">>),
      Field("location", <<"/">>), Field("root", <<"r">>),
      Field("allowed_methods", {"POST"}), Blank,
    Header(<<"SERVERS", "s1">>),
      Field("listen", "p1"), NamesField(<< <<"*">> >>), Field("routes", <<"all">>),
      Field("access_log", "log") >>

With(file, i, l) == SubSeq(file, 1, i) \o <<l>> \o SubSeq(file, i + 1, Len(file))
Without(file, i) == SubSeq(file, 1, i - 1) \o SubSeq(file, i + 1, Len(file))

Again == <<Blank, Header(<<"SERVERS", "s1">>), Field("listen", "p3")>>

Files == <<Good, Good \o Again>>
         \o [i \in 1..Len(Good) |-> With(Good, i, Blank)]
         \o [i \in 1..Len(Good) |-> Without(Good, i)]

Disk == [ files   |-> {<<"r", "/", "i">>, <<"r", "/", "a", "/", "i">>, <<"r", "/", "a", "b">>},
          scripts |-> {<<"r", "/", "a", "b">>},
          locked  |-> {<<"r", "/", "i">>},
          dirs    |-> {<<"r">>, <<"r", "/", "a">>, <<"r", "/", "b">>, <<"r", "/", "a", "/", "b">>} ]

Hosts == {<<>>, <<"c">>, <<"a", "b">>, <<"a", "c", "b">>, <<"c", "c">>}

Paths == {<<"/", "a">>, <<"/", "a", "/">>, <<"/", "b">>, <<"/", "b", "/", "a">>, <<"/", "c">>,
          <<"/", "a", "/", "a">>, <<"/", "a", "/", "a", "b">>, <<"/", "a", "b">>, <<"/">>,
          <<"/", "b", "/", "b", "/">>, <<"/", "a", "/", "a", "/", "c">>, <<"/", "r", "%41", "b">>,
          <<SCHEME, "i", "/", "a", "/", "?", "b">>, <<"/", "a", "/", "#">>}

SmallAsks == [addr : {"p1", "p2", "p3"}, host : Hosts, target : Paths]

Kinds == {"a", "A", "7", "!", "%41", "%4a", "%z", "/", ":", "@", "?", "#"}
Targets == UNION {[1..n -> Kinds] : n \in 1..MaxTarget}
           \union UNION {{<<SCHEME>> \o t : t \in [1..n -> Kinds]} : n \in 0..MaxTarget}

\* Names with blocks, each in a field with two pairs of brackets: s1's are
\* readable, and "endless" comes of s2's, a block behind a block.
BlockNames == Small \o <<
    Field("error_log", "log"),
    NamesField(<< <<"[", "a", "|", "b", "a", "]">>, <<"c", "[", "a", "b", "|", "c", "]", "*">> >>),
    Header(<<"SERVERS", "s2">>),
      Field("listen", "p2"), NamesField(<< <<"c", "c">>, <<"[", "a", "]", "[", "b", "]">> >>),
      Field("routes", <<"all">>), Field("access_log", "log") >>

AllSites == <<[file |-> Small, tree |-> Disk,
               asks |-> [addr : {"p1"}, host : {<<"a">>}, target : Targets]],
              [file |-> BlockNames, tree |-> Disk,
               asks |-> [addr : {"p1", "p2"},
                         host : Hosts \union {<<"b", "a">>, <<"c", "a", "b", "c">>, <<"[", "a">>},
                         target : {<<"/">>}]]>>
            \o [i \in DOMAIN Files |-> [file |-> Files[i], tree |-> Disk, asks |-> SmallAsks]]

\* What the proofs about links and redirects take of a disk holds of this one.
ASSUME PlainAssumption == \A s \in DOMAIN Sites : HasPlainNames(Sites[s])

\* A name with alternatives, as common/match.cc reads them.
PatternSites ==
    <<[file |-> Common \o <<Header(<<"SERVERS", "s1">>), Field("listen", "p1"),
                            NamesField(<< <<"[", "a", "|", "b", "]">> >>),
                            Field("access_log", "log")>>,
       tree |-> Disk, asks |-> {}]>>
=============================================================================
