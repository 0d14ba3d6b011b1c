--------------------------- MODULE MCCompression ---------------------------
(***************************************************************************)
(* Families of items, each with the atoms whose interplay it is about.     *)
(***************************************************************************)
EXTENDS Compression

CONSTANTS Length  \* bound: the pieces a text is written with

\* A function whose body is written freely, piece by piece.
Source(language, pieces) ==
  [tag |-> "none", ext |-> language, type |-> "code", structured |-> FALSE,
   head |-> <<"F", "{">>, pieces |-> pieces, tail |-> <<"}">>,
   max |-> Length, keepDocstrings |-> FALSE,
   previous |-> {<<>>}, bases |-> {NoVersion}]

Short == <<"a", ";">>
Long == <<"a", "a", ";">>
Inner == <<"F", "{">> \o Long \o <<"}">>
SourceFamilies ==
  << Source("typescript", {<<"F", "{">>, <<"C", "{">>, <<"I", "{">>, <<"}">>, Short, Inner}),
    Source("typescript", {<<"quote">>, <<"\\">>, <<"{">>, <<"}">>, Long}),
    Source("typescript", {<<"/", "/">>, <<"/", "*">>, <<"*", "/">>, <<NL>>, <<"a", "/">>, Long}),
    Source("typescript", {<<"tick">>, <<"\\">>, <<"{">>, <<"}">>, <<";">>, Long}),
    Source("go", {<<"F", "{">>, <<"C", "{">>, <<"}", NL>>, <<"a", NL>>, <<"a", "a", NL>>}),
    Source("go", {<<"quote">>, <<"\\">>, <<NL>>, <<"{">>, <<"}", NL>>, <<"a", "a", NL>>}),
    Source("go", {<<"/">>, <<"*">>, <<NL>>, <<"}", NL>>, <<"a", "a", NL>>}),
    Source("go", {<<"tick">>, <<"\\">>, <<"quote">>, <<"}", NL>>, <<"{", NL>>}) >>

Line(kind, indent) == [kind |-> kind, indent |-> indent]

\* A Python function whose lines are written freely.
Python(pieces, keepDocstrings) ==
  [tag |-> "python", ext |-> "none", type |-> "code", structured |-> FALSE,
   head |-> <<Line("def", 0)>>, pieces |-> pieces, tail |-> <<>>,
   max |-> Length, keepDocstrings |-> keepDocstrings,
   previous |-> {<<>>}, bases |-> {NoVersion}]

Call == <<Line("open", 1), Line("stmt", 1), Line("close", 1)>>
Branch == <<Line("block", 1), Line("stmt", 2), Line("stmt", 2)>>
PythonFamilies ==
  << Python({<<Line("def", 0)>>, <<Line("def", 1)>>, <<Line("stmt", 1)>>, <<Line("stmt", 2)>>,
            <<Line("blank", 0)>>, Branch}, FALSE),
    Python({<<Line("open", 1)>>, <<Line("stmt", 2)>>, <<Line("comment", 1)>>, <<Line("comment", 2)>>, Call, Branch}, FALSE),
    Python({<<Line("doc", 1)>>, <<Line("triple", 1)>>, <<Line("stmt", 1)>>, <<Line("comment", 1)>>,
            <<Line("blank", 0)>>}, TRUE),
    Python({<<Line("doc", 1)>>, <<Line("triple", 1)>>, <<Line("stmt", 1)>>, Branch}, FALSE) >>

\* Items without a region: a document of JSON and text, and one the gateway
\* serialized.
Opaque(ext, structured, text) ==
  [tag |-> "none", ext |-> ext, type |-> "text", structured |-> structured,
   head |-> text, pieces |-> {}, tail |-> <<>>, max |-> 0, keepDocstrings |-> FALSE,
   previous |-> {<<>>}, bases |-> {NoVersion}]

OpaqueFamilies ==
  << Opaque("json", FALSE, <<"J">>), Opaque("none", FALSE, <<"J">>),
    Opaque("none", TRUE, <<"J">>), Opaque("none", FALSE, <<"a", "a", "a", "a">>) >>

\* Texts of at most n lines that are diffed against an earlier version, which
\* a host knows by its path or finds among earlier items: one that shares
\* nothing, and two of which the first that shares something counts.
TextOf(lines) == FlattenSeq([n \in DOMAIN lines |-> lines[n] \o <<NL>>])
TextsOf(lines, n) == UNION {{TextOf(t) : t \in [1..m -> lines]} : m \in 0..n}

Versions(language, lines, one, n) ==
  [tag |-> language, ext |-> "none", type |-> "text", structured |-> FALSE,
   head |-> <<>>, pieces |-> {line \o <<NL>> : line \in lines}, tail |-> <<>>, max |-> n,
   keepDocstrings |-> FALSE,
   previous |-> {<<>>, <<[shares |-> {}, text |-> one]>>,
                 <<[shares |-> {"origin"}, text |-> one \o <<NL>>],
                   [shares |-> {"path", "id"}, text |-> one]>>},
   bases |-> TextsOf(lines, n) \cup {NoVersion}]

VersionFamilies ==
  << Versions("none", {<<"a", "a", "a">>, <<"b", "b", "b">>}, <<"b", "b", "b">>, 4),
     Versions("none", {<<"a", "a", "a">>, <<"a", "a", "a", CR>>}, <<"a", "a", "a">>, 3),
     Versions("typescript", {<<"F", "{", "a">>, <<"a", "a", "}">>}, <<"F", "{", "a">>, 4) >>

\* A body of statements, one of which is a regular expression about a bracket,
\* as `/[)]/`, and one of which holds a semicolon in brackets, as `for (;;)`.
Pattern == <<"/", "[", ")", "]", "/", ";">>
Pair == <<"(", "a", ";", ")", ";">>
SplitFamilies == << Source("typescript", {Short, Pattern, Pair}) >>

\* A body of statements, one of which begins with a regular expression.
PatternFamilies == << Source("typescript", {Long, Pattern}) >>

\* A docstring with an example in it, of a function whose docstring is kept.
Example == <<Line("def", 1), Line("stmt", 2), Line("stmt", 2), Line("stmt", 2)>>
ExampleFamilies == << Python({<<Line("triple", 1)>>, Example, <<Line("stmt", 1)>>}, TRUE) >>

\* A class that extends a call, as `class S extends Mixin(B)`, and its methods.
ClassFamilies ==
  << [Source("typescript", {<<"F", "{">>, Long, <<"}">>}) EXCEPT !.head = <<"C", "(", "a", ")", "{">>] >>

AllFamilies ==
  SourceFamilies \o PythonFamilies \o OpaqueFamilies \o VersionFamilies
    \o PatternFamilies \o ExampleFamilies \o ClassFamilies
=============================================================================
