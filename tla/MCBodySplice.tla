---------------------------- MODULE MCBodySplice ----------------------------
(* Bodies with strings that hold brackets, quotes and other spellings of the   *)
(* same text, contents that are no strings, members given twice, members named *)
(* content where none is looked for, null messages, and a system prompt before *)
(* or after the messages.                                                      *)
EXTENDS BodySplice

\* The same text with an escape that JSON.stringify would not write.
Escaped(text) == <<Quote, Escape>> \o text \o <<Quote>>

A         == Encoded(<<"a">>)
A_Escaped == Escaped(<<"a">>)
EndsInA   == Encoded(<<Quote, "a">>)
EndsOpen  == Encoded(<<"b", Quote>>)
Closing   == Encoded(<<"}", "]">>)
Blank     == Encoded(<<>>)

Member(name, value) == [key |-> Encoded(<<name>>), value |-> value]

Content(value) == Member("content", value)

Part  == Object(<<Content(A)>>)
Parts == <<"[">> \o Part \o <<"]">>

Plain   == {<<Content(v)>> : v \in {A, A_Escaped, EndsInA, Closing, <<"null">>, Parts}}
Beside  == {<<Member("note", v), Content(A)>> : v \in {Part, Closing, EndsOpen}}
             \cup {<<Content(A), Member("note", v)>> : v \in {Part, EndsInA}}
Twice   == {<<Content(v), Content(A)>> : v \in {A, Parts}}
             \cup {<<Content(A), [key |-> Escaped(<<"content">>), value |-> A]>>}
Few     == {Null, <<Content(A)>>, <<Content(Closing)>>, <<Member("note", Part), Content(A)>>, <<Content(<<"null">>)>>}

Lists == BoundedSeq(Plain \cup Beside \cup Twice \cup {Null}, 2) \cup [1..3 -> Few]

Before == {<<>>, <<Member("note", Blank), Member("note", EndsInA)>>, <<Member("system", Encoded(<<"b">>))>>,
           <<Member("messages", Parts), Member("note", EndsOpen)>>}
After  == {<<>>, <<Member("system", Encoded(<<"b">>)), Member("note", A)>>, <<Member("system", Parts)>>}

SomeBodies ==
  {b \in [before : Before, messages : Lists, after : After, anthropic : BOOLEAN] :
     b.anthropic \/ \A i \in DOMAIN (b.before \o b.after) : (b.before \o b.after)[i].key # Encoded(<<"system">>)}

Texts == {<<"a">>, <<Quote, "a">>, <<"}", "]">>}
=============================================================================
