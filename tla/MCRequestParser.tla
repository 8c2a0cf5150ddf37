--------------------------- MODULE MCRequestParser ---------------------------
(* Instances of RequestParser for TLC.                                     *)
EXTENDS RequestParser

UnitKinds == {Units!Unit(k, 1, IF k = "field" THEN 1 ELSE 0) : k \in {"line", "field", "crlf", "byte"}}
Get == <<Units!Unit("line", 1, 0), Units!Unit("crlf", 1, 0)>>
Post == <<Units!Unit("line", 1, 0), Units!Unit("field", 1, 1), Units!Unit("crlf", 1, 0)>>

MCSpellings == SeqOf(UnitKinds, 3) \cup {Post \o Get}

\* A header, with a character of any class put in or in the place of another.
Header1 == <<DIGIT, SP, SLASH, CHAR, SP, DOT, CR, LF, CHAR, TAB, COLON, ONE, SP, SEP, CR, LF, CR, LF>>
Damaged ==
  {SubSeq(Header1, 1, k) \o <<c>> \o SubSeq(Header1, n, Len(Header1)) :
     c \in Chars, <<k, n>> \in {<<j, j + i>> : j \in 0 .. Len(Header1), i \in {1, 2}}}

\* Blanks, line ends and what the scanner knows of them, in any order.
Loose == SeqOf({NUL, TAB, LF, CR, SP, ONE, HIGH}, 3)

\* Strings at and over the size of their arrays, with room behind them and without, and
\* more blanks than a string of yylval holds.
Line(method, uri, version) == method \o <<SP>> \o uri \o <<SP>> \o version \o <<CR, LF>>
Field(name, value) == name \o <<COLON>> \o value \o <<CR, LF>>
Some(c, n) == [i \in 1 .. n |-> c]
Long ==
  {Line(Some(CHAR, m), Some(SLASH, u), Some(DOT, v)) \o Field(<<CHAR>>, <<ONE>>) \o <<CR, LF>> :
     m \in {1, 2, 6, 7}, u \in 1 .. 3, v \in {1, 2, 4, 5}}
    \cup {Line(<<CHAR>>, <<SLASH>>, <<DOT>>) \o Field(Some(ONE, n), Some(SEP, m))
             \o Field(Some(CHAR, n), <<SEP>>) \o Field(<<DOT>>, Some(DOT, l)) \o Field(<<ONE>>, <<CHAR>>)
             \o <<CR, LF>> :
           n \in {1, 2, 6}, m \in {3, 4}, l \in 3 .. 6}
    \cup {Line(<<CHAR>>, <<SLASH>>, <<DOT>>) \o Field(<<CHAR>>, <<DOT>> \o Some(TAB, n) \o <<DOT>>)
             \o <<CR, LF>> : n \in 2 .. 6}

MCScripts ==
  {<<Spelled(s), Spelled(t), Spelled(Get)>> : s \in SeqOf(UnitKinds, 3), t \in {Get, Post \o Get}}
    \cup {<<d>> : d \in Damaged}
    \cup {<<l, Spelled(Get)>> : l \in Loose \cup Long}
=============================================================================
