---------------------------- MODULE MCHttpUpload ----------------------------
(* Uploads for TLC: multipart bodies of up to two parts, built the way a     *)
(* client builds them, with bare line feeds or CR LF.                        *)
EXTENDS HttpUpload, TLC

\* A part: a field, whose headers name no file, or a file with its contents.
Field    == [name |-> "x", contents |-> <<"x">>]
PartsOf  == [name : Name, contents : {<<>>, <<"x">>, <<"LF", "x">>, <<"x", "CR", "LF", "LF">>}]
Part1(p, e) == <<"B">> \o e \o <<p.name>> \o e \o e \o p.contents \o e
Forms    == {<<>>} \union {<<p>> : p \in PartsOf \union {Field}}
                   \union {<<p, q>> : p \in {Field} \union {r \in PartsOf : r.contents = <<"x">>},
                                      q \in PartsOf}

Build(form, e) ==
    (IF form = <<>> THEN <<>>
     ELSE IF Len(form) = 1 THEN Part1(form[1], e)
     ELSE Part1(form[1], e) \o Part1(form[2], e)) \o <<"B", "--">> \o e

AllBodies  == {Build(form, e) : form \in Forms, e \in Eols}

\* Each is a multipart body, so that PartsExact says something of it.
ASSUME MultipartAssumption == \A b \in AllBodies : \E e \in Eols : Multipart(b, e)

Symmetry == Permutations(Inode)
=============================================================================
