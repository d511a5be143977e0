---------------------------- MODULE MCDictionary ----------------------------
(***************************************************************************)
(* Programs for Dictionary: each lesson is a sequence of token sets.       *)
(***************************************************************************)
EXTENDS Dictionary

Named(kinds, names) == kinds \X names
Orders == {<<>>, <<1>>, <<1, 0>>, <<0, 1>>}
OrderTokens ==
    {<<"forth">>, <<"only">>, <<"also">>, <<"previous">>, <<"definitions">>}
    \union Named({">order", "set-current"}, {0, 1, 7})
    \union Named({"set-order"}, Orders)
Semi == {<<";">>}
Body == {<<"number">>, <<"recurse">>}

\* The order is changed from the text, four times, among definitions.
OrderLesson ==
    <<{<<"wordlist">>, <<"vocabulary", "v">>}>> \o
    <<OrderTokens \union {<<"name", "v">>}, OrderTokens,
      {<<"colon", "a">>}, Body, Semi,
      OrderTokens \union {<<"name", "v">>}, OrderTokens \union {<<"name", "v">>},
      {<<"colon", "b">>}, {<<"name", "a">>}, Semi, OrderTokens, {<<"name", "b">>}>>

\* The order is changed by a word that runs.
RunningOrder ==
    <<{<<"vocabulary", "v">>}, {<<"colon", "a">>}, OrderTokens, OrderTokens,
      {<<"name", "v">>}, Semi, {<<"name", "a">>}, OrderTokens \union {<<"name", "v">>},
      {<<"name", "a">>}>>

\* A word that opens, fills and closes a definition, run while others are
\* being compiled and from the text.
Makes == {<<"colon">>, <<"noname">>}
Inner == {<<"immediate">>, <<"postpone", "b">>, <<"postpone ;">>, <<"colon">>, <<"noname">>}
Uses == {<<"name", "a">>, <<"recurse">>, <<"recursive">>, <<"[">>, <<"]">>,
         <<"postpone ;">>, <<";">>}
NestedLesson ==
    <<{<<"colon", "b">>}, {<<"number">>}, Semi,
      {<<"colon", "a">>}, Makes, Inner, Inner, {<<"postpone ;">>}, Semi,
      {<<"immediate">>, <<"name", "a">>}, {<<"colon", "v">>}, Uses, Uses, Uses, Uses,
      {<<"name", "a">>, <<";">>}, Semi>>

\* RECURSE and RECURSIVE in any order, and the word that comes of it runs.
RecursionLesson ==
    <<{<<"colon", "v">>}>> \o [k \in 1..4 |-> Body \union {<<"recursive">>}] \o
    <<Semi, {<<"name", "v">>}>>

\* A definition opened by one word and closed by another, or by `;'.
OpenAndClose ==
    <<{<<"colon", "a">>}, Makes, Semi, {<<"immediate">>},
      {<<"colon", "b">>}, {<<"postpone ;">>}, Semi, {<<"immediate">>}>> \o
    [k \in 1..7 |-> {<<"colon", "v">>, <<"name", "a">>, <<"name", "b">>, <<"recurse">>,
                     <<"number">>, <<"[">>, <<"]">>, <<";">>}]

\* VALUE, DEFER, TO and IS over two wordlists and redefinitions.
Cells == Named({"value", "defer"}, {"a"})
Assigns == Named({"to", "is"}, {"a"})
ValueLesson ==
    <<{<<"wordlist">>}, {<<"noname">>, <<"colon", "b">>}, {<<"number">>}, Semi, Cells,
      {<<"colon", "v">>}, Assigns, {<<"name", "a">>}, Semi, {<<"name", "v">>} \union Assigns,
      OrderTokens, OrderTokens, Cells \union {<<"colon", "a">>},
      Cells \union Assigns \union Semi, OrderTokens \union Assigns,
      Assigns \union {<<"name", "a">>, <<"name", "v">>}, Cells>>

MCNames == {"a", "b", "v"}
MCValues == {0, 1}
MCLessons == {OrderLesson, RunningOrder, NestedLesson, RecursionLesson,
              OpenAndClose, ValueLesson}
=============================================================================
