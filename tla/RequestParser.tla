---------------------------- MODULE RequestParser ----------------------------
(***************************************************************************)
(* The calls of parse_request_header() (src/src/http/http_handler.cc): the *)
(* scanner of Lexer and the parser of Grammar on one input after another.  *)
(*                                                                         *)
(* flex's buffer outlives a call, yyparse()'s stacks do not.  The units of *)
(* Parser, the abstraction of all this, are spelled out here, and the two  *)
(* are compared call by call.                                              *)
(***************************************************************************)
EXTENDS Lexer, Grammar

CONSTANTS
  Scripts,   \* the inputs of the calls, one after the other, that there may be
  Spellings  \* of inputs that are spelled units: a set of sequences of units

ASSUME ScriptsAssumption == Scripts \subseteq Seq(Seq(Chars))

VARIABLES
  script,    \* the inputs of the calls to come
  tokens,    \* history: what the call has read, with the values
  texts,     \* history: how many characters those are, less what a t_crlf repeats
  own,       \* history: no call before this one was refused or left anything of its input
  units      \* history: what Parser may say of this call and the calls before it

history == <<script, tokens, texts, own, units>>
vars == <<lexvars, gramvars, history>>

Units == INSTANCE Parser

-----------------------------------------------------------------------------
(* Units and their characters.                                             *)

LineEnd == <<CR, LF>>

Spelling(u) ==
  CASE u.kind = "line" -> <<CHAR, SP, SLASH, SP, CHAR>> \o LineEnd
    [] u.kind = "field" -> <<CHAR, COLON, SP, DIGIT>> \o LineEnd
    [] u.kind = "crlf" -> LineEnd
    [] u.kind = "byte" -> <<SEP>>

Spelled(s) == FlattenSeq([k \in DOMAIN s |-> Spelling(s[k])])

\* The characters cs are left of the units s: a rest is the end of a line or a field.
LeftOf(s, cs) ==
  IF s = <<>> \/ s[1].kind # "rest" THEN cs = Spelled(s)
  ELSE \E kind \in {"line", "field"} : LET whole == Spelling(Units!Unit(kind, 1, 0)) IN
         \E k \in 2 .. Len(whole) :
           cs = SubSeq(whole, k, Len(whole)) \o Spelled(Tail(s))

Unspelled == [known |-> FALSE, left |-> {}, input |-> <<>>]

\* The units that Parser reads in this call.
Reading(in) ==
  IF units.known /\ \E s \in Spellings : Spelled(s) = in
  THEN [units EXCEPT !.input = CHOOSE s \in Spellings : Spelled(s) = in]
  ELSE Unspelled

\* Those of the units' outcomes that agree with the call's.
Agreeing(accepts) ==
  {o \in UNION {Units!Parse(l, units.input) : l \in units.left} :
     o.accepts = accepts /\ LeftOf(o.lex, InBuffer)}

-----------------------------------------------------------------------------
Init ==
  /\ LexInit /\ GramInit
  /\ script \in Scripts /\ tokens = <<>> /\ texts = 0 /\ own = TRUE
  /\ units = [known |-> TRUE, left |-> {<<>>}, input |-> <<>>]

\* set_parsing_options() and the entry of yyparse().
Call ==
  /\ yyresult \notin {"runs", "overrun"} /\ script # <<>>
  /\ SetInput(Head(script)) /\ Yyparse
  /\ script' = Tail(script)
  /\ tokens' = <<>> /\ texts' = 0
  /\ units' = Reading(Head(script))
  /\ UNCHANGED <<buffer, pointers, yy_last_accepting, yylex, own>>

\* yyparse() calls yylex().
Ask ==
  /\ NeedsToken
  /\ Yylex
  /\ UNCHANGED <<gramvars, history>>

Scan ==
  /\ LexStep
  /\ UNCHANGED <<gramvars, history>>

\* yytranslate of what the rules' actions return.
Token ==
  <<t_backslash, t_crlf, t_sp, t_ws, t_digit, t_dot, t_colon, t_separators, t_token_char, t_lws,
    t_ctl>>

\* The value is the text of the lexeme, and for t_crlf, t_lws and t_ctl what it was.
TokenValue(rule) == IF rule \in {2, 10, 11} THEN yylval ELSE Text(yytext_ptr, yylex.cp)

Reads(token, value) ==
  /\ ReadToken(token, value)
  /\ tokens' = Append(tokens, [token |-> token, value |-> value])
  /\ texts' = IF token = t_crlf THEN texts ELSE texts + Len(value)
  /\ own' = (own /\ yyresult' = "runs")
  /\ UNCHANGED <<script, units>>

GetToken == ReturnToken /\ Reads(Token[yylex.act], TokenValue(yylex.act))
GetEnd == EndOfFile /\ Reads(YYEOF, yylval)

\* A step of yyparse() between tokens; at its end the units' outcome is compared.  A
\* refused call loses what it has not copied of its input.
Parse ==
  /\ yylex.pc = "out"
  /\ GramStep
  /\ own' = (own /\ (yyresult' # "runs" => yyresult' = "accept" /\ Unread = <<>>))
  /\ units' =
       IF yyresult' \in {"runs", "overrun"} \/ ~units.known THEN units
       ELSE IF parsing_offset \in 1 .. Len(parsing_buf) - 1 THEN Unspelled
       ELSE [units EXCEPT !.left = {o.lex : o \in Agreeing(yyresult' = "accept")}]
  /\ UNCHANGED <<lexvars, script, tokens, texts>>

Next == Call \/ Ask \/ Scan \/ GetToken \/ GetEnd \/ Parse

Spec == Init /\ [][Next]_vars

-----------------------------------------------------------------------------
(* The grammar of parser.y.                                                *)

TokenChars == {t_token_char, t_digit, t_dot}
TextChars == TokenChars \cup {t_backslash, t_separators, t_colon}
Blanks == {t_sp, t_ws}

Name(s) == s # <<>> /\ Range(s) \subseteq TokenChars
TextOf(s) ==
  /\ s # <<>> /\ {Head(s), Last(s)} \subseteq TextChars
  /\ Range(s) \subseteq TextChars \cup Blanks
  /\ \A k \in DOMAIN s \ {1} : {s[k - 1], s[k]} \cap TextChars # {}

\* The ends of the parts of a request line: the spaces behind the method and the URI are
\* the first two of a single blank.
LineParts(s) ==
  {p \in (DOMAIN s) \X (DOMAIN s) : LET m == p[1]  n == p[2] IN
     /\ m < n /\ s[m] = t_sp /\ s[n] = t_sp /\ \A k \in 1 .. n : s[k] = t_sp => k \in {m, n}
     /\ Name(SubSeq(s, 1, m - 1)) /\ TextOf(SubSeq(s, m + 1, n - 1))
     /\ TextOf(SubSeq(s, n + 1, Len(s)))}

\* The ends of a field's name, and what is in front of its value.
FieldParts(s) ==
  {p \in (DOMAIN s) \X (DOMAIN s) : LET m == p[1]  n == p[2] IN
     /\ Name(SubSeq(s, 1, m)) /\ TextOf(SubSeq(s, n + 1, Len(s)))
     /\ \E before, after \in {<<>>, <<t_sp>>, <<t_ws>>} :
          SubSeq(s, m + 1, n) = before \o <<t_colon>> \o after}

\* The lines that end in s, without their t_crlf, and the line behind them.
Ends(s) == <<0>> \o SetToSortSeq({k \in DOMAIN s : s[k] = t_crlf}, <)
Lines(s) == [j \in 1 .. Len(Ends(s)) - 1 |-> SubSeq(s, Ends(s)[j] + 1, Ends(s)[j + 1] - 1)]
Behind(s) == SubSeq(s, Last(Ends(s)) + 1, Len(s))

Header(lines) ==
  \A j \in DOMAIN lines : IF j = 1 THEN LineParts(lines[1]) # {} ELSE FieldParts(lines[j]) # {}

Accepted(s) ==
  /\ s # <<>> /\ Behind(s) = <<>> /\ Len(Lines(s)) > 1 /\ Last(Lines(s)) = <<>>
  /\ Header(Front(Lines(s)))

\* A line that is begun as p can be ended.
Completions ==
  LET c == t_token_char IN
  {<<>>, <<c>>, <<t_sp, c>>, <<c, t_sp, c>>, <<t_sp, c, t_sp, c>>, <<c, t_sp, c, t_sp, c>>,
   <<t_colon, c>>, <<c, t_colon, c>>}
Viable(s) ==
  \/ Accepted(s)
  \/ Header(Lines(s)) /\ \E c \in Completions : Header(Append(Lines(s), Behind(s) \o c))

Kinds(s) == [k \in DOMAIN s |-> s[k].token]
Content(s) == FlattenSeq([k \in DOMAIN s |-> s[k].value])

\* What is kept of it as one string.
String(s) == SubSeq(Content(s), 1, Min({MaxText, Len(Content(s))}))

\* What is read of the request that a header's tokens stand for: the version is the line's,
\* the method, a name and a value are if they fit into their arrays, and the URI is if the
\* version fits into its own.
Denotes(s, r) ==
  LET e == Ends(Kinds(s))
      line(j) == SubSeq(s, e[j] + 1, e[j + 1] - 1)
  IN
  /\ \E p \in LineParts(Kinds(line(1))) :
       LET method == String(SubSeq(line(1), 1, p[1] - 1))
           version == String(SubSeq(line(1), p[2] + 1, Len(line(1))))
       IN
       /\ Len(method) < MethodSize => r.method = method
       /\ Len(version) < VersionSize => r.uri = String(SubSeq(line(1), p[1] + 1, p[2] - 1))
       /\ r.version = version
  /\ Len(r.headers) = Len(e) - 3
  /\ \A j \in DOMAIN r.headers : \E p \in FieldParts(Kinds(line(j + 1))) :
       LET name == String(SubSeq(line(j + 1), 1, p[1]))
           value == String(SubSeq(line(j + 1), p[2] + 1, Len(line(j + 1))))
       IN
       /\ Len(name) < NameSize => r.headers[j][1] = name
       /\ Len(value) < ValueSize => r.headers[j][2] = value

-----------------------------------------------------------------------------
(* Properties.                                                             *)

\* A request is accepted if and only if the tokens read are a request header of the
\* grammar, and then what is read of it is what its parts spell out, blanks inside a value
\* included, but for strings that are too long and the URI in front of one; it is refused
\* at the first token that no header can go on with (parser.y:79-151, parse.h:8-23,
\* y.tab.c:1112-1644).
SyntaxAgrees ==
  /\ yyresult = "accept" => /\ Accepted(Kinds(tokens))
                            /\ Denotes(tokens, Stored(parsing_request))
  /\ yyresult = "abort" => ~Viable(Kinds(tokens)) /\ Viable(Front(Kinds(tokens)))

\* A string goes over the end of yylval, of the request or of the array of its fields only
\* in a call whose tokens have as many characters as the smallest of the arrays at the end
\* of those (parser.l:87, parser.y:124-141).
StringsBounded == yyresult = "overrun" => texts >= Min({UriSize, ValueSize, MaxText + 1})

\* Nothing is read or written outside flex's buffer and the parser's stacks, no call ends
\* for want of memory, no field is stored outside its array, and what strings there are too
\* long for theirs.
WithinBounds == BufferOK /\ StacksBounded /\ StringsBounded

\* A call reads its own input, all of it and nothing else, as long as each call before it
\* was accepted with the last of its input: no state of the scanner or of the parser
\* passes from one call to the next but the characters left in flex's buffer
\* (parser.y:25-34, lex.yy.c:459-471).
OwnInput ==
  own /\ yyresult = "runs" =>
    /\ IsSuffix(Unread, parsing_buf)
    /\ tokens = <<>> /\ yylex.pc = "out" => Unread = parsing_buf
    /\ yychar = YYEOF => Unread = <<>>

\* Parser agrees: on what was left by the calls before, it accepts as the code does and
\* leaves what the code leaves (as long as flex has copied all of its input or none).
UnitsAgree == units.left # {} \/ ~units.known
=============================================================================
