----------------------------- MODULE MCCgiReader -----------------------------
(* Outputs of CGI workers for TLC: with and without headers, a Status with   *)
(* and without a space, a length that is met, missed or exceeded, bare line  *)
(* feeds and CR LF.                                                          *)
EXTENDS CgiFraming

Cat(A, B) == {a \o b : a \in A, b \in B}

Blank  == {<<>>, <<"LF">>, <<"CR", "LF", "CR">>, <<"CR", "CR">>}
Field  == {<<"len", "LF">>, <<"code", "CR", "LF">>, <<"word", "LF">>,
           <<"bare", "LF">>, <<"bare", "x", "CR", "LF">>, <<"x", "LF">>}
Fields == {<<>>} \union Field \union Cat(Field, Field)
End    == {<<"LF">>, <<"CR", "LF">>, <<"CR", "CR", "LF">>}
Body   == {<<>>, <<"x">>, <<"x", "LF">>, <<"LF", "CR", "x">>}

Outputs == Cat(Cat(Blank, Fields), Cat(End, Body))

BadStatus == {<<"word", "LF", "LF", "x">>, <<"word", "LF", "len", "LF", "LF", "x", "x">>}
=============================================================================
