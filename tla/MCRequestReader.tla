--------------------------- MODULE MCRequestReader ---------------------------
(* Streams for TLC: requests with and without a body, bare line feeds and   *)
(* CR LF, headers in both orders, malformed lines and chunks, and a second   *)
(* request behind the first.                                                 *)
EXTENDS RequestFraming

Cat(A, B) == {a \o b : a \in A, b \in B}

Blank   == {<<>>, <<"LF">>, <<"CR", "LF", "CR">>}
First   == {<<"get", "LF">>, <<"post", "CR", "LF">>, <<"x", "LF">>, <<"CR", "LF">>}
Field   == {<<"len", "LF">>, <<"chunked", "CR", "LF">>, <<"bare", "LF">>, <<"bare", "x", "LF">>}
Fields  == {<<>>} \union Field \union Cat({<<"len", "LF">>}, Field)
End     == {<<"LF">>, <<"CR", "LF">>, <<"CR", "CR", "LF">>}
Plain   == {<<"x", "LF", "x">>, <<"get", "LF", "LF">>}

MetaStreams == Cat(Cat(Blank, First), Cat(Cat(Fields, End), Plain))

Chunked == {<<"post", "LF", "chunked", "LF", "LF">>}
Chunk   == {<<"n1", "LF", "x", "LF">>, <<"n2", "CR", "LF", "CR", "LF", "CR", "LF">>,
            <<"n1", "LF", "CR", "CR", "LF">>, <<"n1", "LF", "x", "CR", "x">>,
            <<"n1", "LF", "x", "x">>, <<"LF", "x", "LF">>, <<"CR", "CR", "LF">>, <<"x", "LF">>}
Last    == {<<"n0", "LF", "LF">>, <<"n0", "CR", "LF", "CR", "LF">>, <<"n0", "LF", "x">>}

ChunkStreams == Cat(Cat(Chunked, Chunk), Cat({<<>>} \union Chunk, Cat(Last, {<<"get", "LF", "LF">>})))

AllStreams == MetaStreams \union ChunkStreams

StallStream == {<<"post", "LF", "chunked", "LF", "LF", "n1", "LF", "x", "CR", "x", "x">>}

ZeroOrOne == {0, 1}
=============================================================================
