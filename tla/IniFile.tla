------------------------------- MODULE IniFile -------------------------------
(***************************************************************************)
(* Config::Category::ParseFromINI of src/sources/config/config.cc: the     *)
(* categories of a file and their fields, read line by line.               *)
(*                                                                         *)
(* A line is what the tests of ParseLine see of it: nothing, only a        *)
(* comment, a header or a field.  A field has a text: what its value holds *)
(* of brackets, "x" standing for a run of anything else (":" left out).    *)
(* A line of blanks only is a comment here, since Trim leaves it as it is. *)
(* Categories are named by their path from the root; the root is <<>>.     *)
(***************************************************************************)
EXTENDS Sequences, Naturals, FiniteSetsExt

\* Lines
Blank               == [is |-> "blank"]
Comment             == [is |-> "comment"]
Header(path)        == [is |-> "header", path |-> path]
Bracketed(name, value, text) ==
    [is |-> "field", name |-> name, value |-> value, text |-> text]
Field(name, value)  == Bracketed(name, value, <<"x">>)

\* A category is the function from its field names to their values.
NoFields == [x \in {} |-> <<>>]
NewFile  == [cats |-> [path \in {<<>>} |-> NoFields], cur |-> <<>>]

Prefixes(path) == {SubSeq(path, 1, n) : n \in 0..Len(path)}

\* std::map::insert leaves what is there alone.
Opened(cats, path) ==
    [p \in DOMAIN cats \union Prefixes(path) |-> IF p \in DOMAIN cats THEN cats[p] ELSE NoFields]

\* The text from the first "[" to the last "]", or to the end if that one comes
\* before it, is the name of a category: something without a bracket.
NamesCategory(text) ==
    LET Positions(c) == {k \in DOMAIN text : text[k] = c}
        name == {k \in DOMAIN text :
                    /\ Min(Positions("[")) < k
                    /\ \/ k < Max(Positions("]"))
                       \/ Max(Positions("]")) < Min(Positions("["))}
    IN  /\ Positions("[") # {} /\ Positions("]") # {}
        /\ name # {} /\ \A k \in name : text[k] = "x"

\* So a field with one pair of brackets is taken for a header, and one with two
\* pairs is not.
IsCategory(line) == line.is = "header" \/ (line.is = "field" /\ NamesCategory(line.text))

\* The name is the line without its first and its last character.
CategoryPath(line) == IF line.is = "header" THEN line.path
                      ELSE <<"cut " \o line.name>>

Assigned(fields, name, value) ==
    [x \in {name} \union DOMAIN fields |-> IF x = name THEN value ELSE fields[x]]
SetField(cats, path, name, value) ==
    [cats EXCEPT ![path] = Assigned(@, name, value)]

KeepCategory(f, line) ==                                       \* mutant
    CASE line.is = "blank" -> f
      [] IsCategory(line)  -> [cats |-> Opened(f.cats, CategoryPath(line)),
                               cur |-> CategoryPath(line)]
      [] line.is = "field" /\ ~IsCategory(line) ->
             [f EXCEPT !.cats = SetField(f.cats, f.cur, line.name, line.value)]
      [] OTHER -> f

\* A blank line closes the category; a line with only a comment does not.
ParseLine(f, line) ==
    CASE line.is = "blank" -> [f EXCEPT !.cur = <<>>]
      [] IsCategory(line)  -> [cats |-> Opened(f.cats, CategoryPath(line)),
                               cur |-> CategoryPath(line)]
      [] line.is = "field" /\ ~IsCategory(line) ->
             [f EXCEPT !.cats = SetField(f.cats, f.cur, line.name, line.value)]
      [] OTHER -> f

-----------------------------------------------------------------------------
(* What a file says, without reading it in order: each field belongs to    *)
(* the header above it unless a blank line is between, and the last        *)
(* assignment counts.                                                      *)

HeaderOf(file, i) ==
    LET marks == {j \in 1..(i - 1) : file[j].is \in {"header", "blank"}} IN
    IF marks = {} \/ file[Max(marks)].is = "blank" THEN <<>> ELSE file[Max(marks)].path

FieldsOf(file, path) ==
    LET mine == {i \in DOMAIN file : file[i].is = "field" /\ HeaderOf(file, i) = path}
        Last(name) == Max({i \in mine : file[i].name = name})
    IN  [name \in {file[i].name : i \in mine} |-> file[Last(name)].value]

CategoriesOf(file) ==
    LET headers == {file[i].path : i \in {j \in DOMAIN file : file[j].is = "header"}}
        paths   == {<<>>} \union UNION {Prefixes(path) : path \in headers}
    IN  [path \in paths |-> FieldsOf(file, path)]
=============================================================================
